---- MODULE Spec2Model ----
(***************************************************************************)
(* Model of scripts/brain_v2.py (K_OS Brain v2): the SmartCache, the       *)
(* CodeGraph, the evolution tracker, the retrieval pipeline and the index  *)
(* operations of BrainV2 with its exported API.                            *)
(*                                                                         *)
(* Strings that the code inspects (substring tests, lower()) are modelled  *)
(* as sequences of one-character strings.  An optional value is a sequence *)
(* of length 0 (None) or 1.                                                *)
(***************************************************************************)
EXTENDS Integers, Sequences, FiniteSets, TLC

VARIABLES
    cache,          \* SmartCache.cache: key -> cached result list
    access_order,   \* SmartCache.access_order: deque of keys, oldest first
    recency,        \* history: keys ordered by their last successful get or put
    nodes,          \* CodeGraph.nodes: the entities in insertion order, one per id
    edges,          \* CodeGraph.edges: id -> list of ids it depends on
    import_map,     \* CodeGraph.import_map: import name -> list of ids
    reverse_deps,   \* CodeGraph.reverse_deps: id -> list of ids depending on it
    ready,          \* BrainV2.ready
    fs,             \* the watched files: path -> source text
    table,          \* BrainV2.table: the rows of codebase_v2, in insertion order
    entity_cache,   \* BrainV2.entity_cache: file path -> list of entities
    memory_table,   \* BrainV2.memory_table: the rows of memories_v1, oldest first
    query_history,  \* BrainV2.query_history: deque(maxlen=50) of query records
    call,           \* the call in progress: of a function under test, or of each thread
    last_event,     \* BrainV2EventHandler.last_event, in half seconds
    accepted,       \* the times of the notifications on_modified let through
    ret             \* the last operation, its arguments and what it returned

cacheVars == <<cache, access_order, recency>>
graphVars == <<nodes, edges, import_map, reverse_deps>>
brainVars == <<ready, fs, table, entity_cache, memory_table, query_history>>
watchVars == <<last_event, accepted>>
vars == <<cache, access_order, recency, nodes, edges, import_map, reverse_deps,
          ready, fs, table, entity_cache, memory_table, query_history, call,
          last_event, accepted, ret>>

(***************************************************************************)
(* Generic helpers.                                                        *)
(***************************************************************************)
None == <<>>
Some(v) == <<v>>

Range(s) == {s[i] : i \in 1..Len(s)}

\* deque.remove(x): drop the first occurrence of x
RemoveFirst(s, x) ==
    LET i == CHOOSE j \in 1..Len(s) : s[j] = x /\ \A k \in 1..(j-1) : s[k] # x
    IN  SubSeq(s, 1, i-1) \o SubSeq(s, i+1, Len(s))

\* d[k] = v on a dict d
DictSet(d, k, v) == [x \in (DOMAIN d) \cup {k} |-> IF x = k THEN v ELSE d[x]]

\* del d[k]
DictDel(d, k) == [x \in (DOMAIN d) \ {k} |-> d[x]]

\* the sequence s without any occurrence of x
Without(s, x) == SelectSeq(s, LAMBDA y : y # x)

(***************************************************************************)
(* String helpers: a string is a sequence of one-character strings.        *)
(***************************************************************************)
IsSpace(c) == c \in {" ", "\n", "\t"}

RECURSIVE LStrip(_)
LStrip(s) == IF s # <<>> /\ IsSpace(Head(s)) THEN LStrip(Tail(s)) ELSE s

RECURSIVE RStrip(_)
RStrip(s) ==
    IF s # <<>> /\ IsSpace(s[Len(s)]) THEN RStrip(SubSeq(s, 1, Len(s) - 1)) ELSE s

\* str.strip()
Strip(s) == RStrip(LStrip(s))

RECURSIVE FileName(_)
\* Path(p).name: what follows the last "/"
FileName(p) ==
    IF \E i \in 1..Len(p) : p[i] = "/"
    THEN FileName(SubSeq(p, (CHOOSE i \in 1..Len(p) : p[i] = "/") + 1, Len(p)))
    ELSE p

(***************************************************************************)
(* IntentRecognizer (brain_v2.py 428-513).                                 *)
(***************************************************************************)
UpperLetters ==
    <<"A", "B", "C", "D", "E", "F", "G", "H", "I", "J", "K", "L", "M",
      "N", "O", "P", "Q", "R", "S", "T", "U", "V", "W", "X", "Y", "Z">>

LowerLetters ==
    <<"a", "b", "c", "d", "e", "f", "g", "h", "i", "j", "k", "l", "m",
      "n", "o", "p", "q", "r", "s", "t", "u", "v", "w", "x", "y", "z">>

Digits == {"0", "1", "2", "3", "4", "5", "6", "7", "8", "9"}

IsUpper(c) == c \in Range(UpperLetters)
IsLower(c) == c \in Range(LowerLetters)

\* the regex class \w
IsWordCh(c) == IsUpper(c) \/ IsLower(c) \/ c \in Digits \/ c = "_"

LowerCh(c) ==
    IF IsUpper(c) THEN LowerLetters[CHOOSE i \in 1..26 : UpperLetters[i] = c] ELSE c

\* str.lower()
Lower(s) == [i \in 1..Len(s) |-> LowerCh(s[i])]

\* w occurs in s at position i
OccursAt(s, w, i) ==
    /\ i >= 1
    /\ i + Len(w) - 1 <= Len(s)
    /\ \A k \in 1..Len(w) : s[i + k - 1] = w[k]

\* Python's  w in s
Contains(s, w) == \E i \in 1..(Len(s) - Len(w) + 1) : OccursAt(s, w, i)

\* the regex \b at the gap before position i of s
Boundary(s, i) ==
    LET before == i > 1 /\ i - 1 <= Len(s) /\ IsWordCh(s[i - 1])
        after == i >= 1 /\ i <= Len(s) /\ IsWordCh(s[i])
    IN  before # after

\* \b(w)\b matches s at position i
WordAt(s, w, i) ==
    /\ OccursAt(s, w, i)
    /\ Boundary(s, i)
    /\ Boundary(s, i + Len(w))

\* IntentRecognizer.intent_patterns: per intent, in order, its three cues; a
\* cue \b(A)\b is <<A>> and a cue \b(A)\b.*\b(B)\b is <<A, B>>
intent_patterns ==
    <<
      [intent |-> "find_code", patterns |-> <<
            <<{<<"f", "i", "n", "d">>, <<"s", "e", "a", "r", "c", "h">>,
               <<"l", "o", "c", "a", "t", "e">>, <<"w", "h", "e", "r", "e">>,
               <<"s", "h", "o", "w">>, <<"g", "e", "t">>},
              {<<"c", "o", "d", "e">>, <<"f", "u", "n", "c", "t", "i", "o", "n">>,
               <<"c", "l", "a", "s", "s">>, <<"s", "t", "r", "u", "c", "t">>,
               <<"i", "m", "p", "l">>, <<"m", "e", "t", "h", "o", "d">>}>>,
            <<{<<"e", "x", "a", "m", "p", "l", "e">>,
               <<"s", "n", "i", "p", "p", "e", "t">>,
               <<"r", "e", "f", "e", "r", "e", "n", "c", "e">>}>>,
            <<{<<"h", "o", "w", " ", "t", "o">>, <<"h", "o", "w", " ", "d", "o">>},
              {<<"i", "m", "p", "l", "e", "m", "e", "n", "t">>, <<"u", "s", "e">>,
               <<"c", "a", "l", "l">>}>>>>],
      [intent |-> "explain", patterns |-> <<
            <<{<<"e", "x", "p", "l", "a", "i", "n">>,
               <<"w", "h", "a", "t", " ", "i", "s">>,
               <<"h", "o", "w", " ", "d", "o", "e", "s">>,
               <<"d", "e", "s", "c", "r", "i", "b", "e">>}>>,
            <<{<<"u", "n", "d", "e", "r", "s", "t", "a", "n", "d">>,
               <<"c", "l", "a", "r", "i", "f", "y">>,
               <<"m", "e", "a", "n", "i", "n", "g">>}>>,
            <<{<<"w", "h", "y">>, <<"h", "o", "w">>},
              {<<"w", "o", "r", "k">>, <<"f", "u", "n", "c", "t", "i", "o", "n">>,
               <<"s", "y", "s", "t", "e", "m">>}>>>>],
      [intent |-> "debug", patterns |-> <<
            <<{<<"e", "r", "r", "o", "r">>, <<"b", "u", "g">>,
               <<"i", "s", "s", "u", "e">>, <<"f", "a", "i", "l">>,
               <<"c", "r", "a", "s", "h">>, <<"b", "r", "o", "k", "e", "n">>}>>,
            <<{<<"f", "i", "x">>, <<"s", "o", "l", "v", "e">>,
               <<"r", "e", "s", "o", "l", "v", "e">>, <<"d", "e", "b", "u", "g">>}>>,
            <<{<<"n", "o", "t", " ", "w", "o", "r", "k", "i", "n", "g">>,
               <<"w", "r", "o", "n", "g">>,
               <<"i", "n", "c", "o", "r", "r", "e", "c", "t">>}>>>>],
      [intent |-> "refactor", patterns |-> <<
            <<{<<"r", "e", "f", "a", "c", "t", "o", "r">>,
               <<"i", "m", "p", "r", "o", "v", "e">>,
               <<"o", "p", "t", "i", "m", "i", "z", "e">>,
               <<"c", "l", "e", "a", "n">>,
               <<"s", "i", "m", "p", "l", "i", "f", "y">>}>>,
            <<{<<"b", "e", "t", "t", "e", "r">>,
               <<"e", "f", "f", "i", "c", "i", "e", "n", "t">>,
               <<"p", "e", "r", "f", "o", "r", "m", "a", "n", "c", "e">>}>>,
            <<{<<"r", "e", "s", "t", "r", "u", "c", "t", "u", "r", "e">>,
               <<"r", "e", "o", "r", "g", "a", "n", "i", "z", "e">>}>>>>],
      [intent |-> "architect", patterns |-> <<
            <<{<<"a", "r", "c", "h", "i", "t", "e", "c", "t", "u", "r", "e">>,
               <<"d", "e", "s", "i", "g", "n">>,
               <<"p", "a", "t", "t", "e", "r", "n">>,
               <<"s", "t", "r", "u", "c", "t", "u", "r", "e">>}>>,
            <<{<<"s", "y", "s", "t", "e", "m">>, <<"m", "o", "d", "u", "l", "e">>,
               <<"c", "o", "m", "p", "o", "n", "e", "n", "t">>,
               <<"s", "e", "r", "v", "i", "c", "e">>}>>,
            <<{<<"h", "o", "w", " ", "s", "h", "o", "u", "l", "d">>,
               <<"b", "e", "s", "t", " ", "w", "a", "y">>,
               <<"a", "p", "p", "r", "o", "a", "c", "h">>}>>>>] >>

\* IntentRecognizer.concept_keywords, in order
concept_keywords ==
    <<
      [concept |-> <<"r", "e", "n", "d", "e", "r", "i", "n", "g">>,
       keywords |-> {<<"r", "e", "n", "d", "e", "r">>, <<"s", "h", "a", "d", "e", "r">>,
                    <<"p", "i", "p", "e", "l", "i", "n", "e">>, <<"g", "p", "u">>,
                    <<"w", "g", "p", "u">>, <<"d", "r", "a", "w">>,
                    <<"v", "e", "r", "t", "e", "x">>,
                    <<"f", "r", "a", "g", "m", "e", "n", "t">>}],
      [concept |-> <<"m", "e", "m", "o", "r", "y">>,
       keywords |-> {<<"m", "e", "m", "o", "r", "y">>, <<"a", "l", "l", "o", "c">>,
                    <<"b", "u", "f", "f", "e", "r">>, <<"c", "a", "c", "h", "e">>,
                    <<"l", "e", "a", "k">>,
                    <<"o", "w", "n", "e", "r", "s", "h", "i", "p">>,
                    <<"b", "o", "r", "r", "o", "w">>}],
      [concept |-> <<"c", "o", "n", "c", "u", "r", "r", "e", "n", "c", "y">>,
       keywords |-> {<<"t", "h", "r", "e", "a", "d">>, <<"a", "s", "y", "n", "c">>,
                    <<"a", "w", "a", "i", "t">>, <<"s", "y", "n", "c">>,
                    <<"m", "u", "t", "e", "x">>, <<"l", "o", "c", "k">>,
                    <<"c", "h", "a", "n", "n", "e", "l">>}],
      [concept |-> <<"u", "i">>,
       keywords |-> {<<"u", "i">>, <<"i", "n", "t", "e", "r", "f", "a", "c", "e">>,
                    <<"w", "i", "d", "g", "e", "t">>, <<"w", "i", "n", "d", "o", "w">>,
                    <<"e", "v", "e", "n", "t">>, <<"i", "n", "p", "u", "t">>,
                    <<"l", "a", "y", "o", "u", "t">>}],
      [concept |-> <<"d", "a", "t", "a">>,
       keywords |-> {<<"d", "a", "t", "a">>, <<"s", "t", "r", "u", "c", "t">>,
                    <<"c", "l", "a", "s", "s">>, <<"o", "b", "j", "e", "c", "t">>,
                    <<"a", "r", "r", "a", "y">>, <<"v", "e", "c", "t", "o", "r">>,
                    <<"m", "a", "p">>}],
      [concept |-> <<"n", "e", "t", "w", "o", "r", "k">>,
       keywords |-> {<<"n", "e", "t", "w", "o", "r", "k">>, <<"h", "t", "t", "p">>,
                    <<"s", "o", "c", "k", "e", "t">>, <<"s", "e", "r", "v", "e", "r">>,
                    <<"c", "l", "i", "e", "n", "t">>,
                    <<"r", "e", "q", "u", "e", "s", "t">>}],
      [concept |-> <<"d", "a", "t", "a", "b", "a", "s", "e">>,
       keywords |-> {<<"d", "a", "t", "a", "b", "a", "s", "e">>, <<"s", "q", "l">>,
                    <<"q", "u", "e", "r", "y">>, <<"t", "a", "b", "l", "e">>,
                    <<"i", "n", "d", "e", "x">>, <<"l", "a", "n", "c", "e">>,
                    <<"v", "e", "c", "t", "o", "r">>}],
      [concept |-> <<"a", "i">>,
       keywords |-> {<<"a", "i">>, <<"m", "l">>, <<"m", "o", "d", "e", "l">>,
                    <<"e", "m", "b", "e", "d", "d", "i", "n", "g">>,
                    <<"v", "e", "c", "t", "o", "r">>,
                    <<"s", "e", "m", "a", "n", "t", "i", "c">>,
                    <<"s", "e", "a", "r", "c", "h">>}] >>

\* re.search of one cue in s
CueMatches(s, cue) ==
    IF Len(cue) = 1
    THEN \E w \in cue[1] : \E i \in 1..Len(s) : WordAt(s, w, i)
    ELSE \E a \in cue[1] : \E i \in 1..Len(s) :
            /\ WordAt(s, a, i)
            /\ \E b \in cue[2] : \E j \in (i + Len(a))..Len(s) :
                  /\ WordAt(s, b, j)
                  /\ \A k \in (i + Len(a))..(j - 1) : s[k] # "\n"

\* sum(1 for pattern in patterns if re.search(pattern, query_lower))
CueScore(s, patterns) ==
    Cardinality({k \in 1..Len(patterns) : CueMatches(s, patterns[k])})

RECURSIVE PickIntent_LastWins(_, _, _, _)
\* the loop with >= for >: of the intents with the most cues the last wins
PickIntent_LastWins(s, k, intent_type, max_score) ==
    IF k > Len(intent_patterns) THEN intent_type
    ELSE LET score == CueScore(s, intent_patterns[k].patterns)
         IN  IF score >= max_score /\ score > 0
             THEN PickIntent_LastWins(s, k + 1, intent_patterns[k].intent, score)
             ELSE PickIntent_LastWins(s, k + 1, intent_type, max_score)

RECURSIVE PickIntent(_, _, _, _)
\* the loop of lines 479-483: a later intent wins only with a higher score
PickIntent(s, k, intent_type, max_score) ==
    IF k > Len(intent_patterns) THEN intent_type
    ELSE LET score == CueScore(s, intent_patterns[k].patterns)
         IN  IF score > max_score
             THEN PickIntent(s, k + 1, intent_patterns[k].intent, score)
             ELSE PickIntent(s, k + 1, intent_type, max_score)

\* the end of the run of \w characters of s that starts at position i
RECURSIVE WordEnd(_, _)
WordEnd(s, i) == IF i < Len(s) /\ IsWordCh(s[i + 1]) THEN WordEnd(s, i + 1) ELSE i

\* positions of s where a whole word starts
WordStarts(s) == {i \in 1..Len(s) : IsWordCh(s[i]) /\ (i = 1 \/ ~IsWordCh(s[i - 1]))}

\* the members of a set of integers, ascending
RECURSIVE Ascending(_)
Ascending(S) ==
    IF S = {} THEN <<>>
    ELSE LET m == CHOOSE x \in S : \A y \in S : x <= y
         IN  <<m>> \o Ascending(S \ {m})

\* re.findall(r'\b([A-Z][a-zA-Z0-9_]*)\b', query)
CapitalizedWords(s) ==
    LET starts == Ascending({i \in WordStarts(s) : IsUpper(s[i])})
    IN  [k \in 1..Len(starts) |-> SubSeq(s, starts[k], WordEnd(s, starts[k]))]

\* position of the end of the line that holds position i
RECURSIVE LineEnd(_, _)
LineEnd(s, i) == IF i < Len(s) /\ s[i + 1] # "\n" THEN LineEnd(s, i + 1) ELSE i

RECURSIVE CalledWords(_, _)
\* re.findall(r'\b([a-z][a-zA-Z0-9_]*)\b.*\(\)', query) from position from:
\* the first word with a lowercase initial that has "()" after it on its
\* line; the greedy .* runs to the last "()" of the line
CalledWords(s, from) ==
    LET cands == {i \in WordStarts(s) :
                     /\ i >= from
                     /\ IsLower(s[i])
                     /\ \E j \in (WordEnd(s, i) + 1)..(LineEnd(s, i) - 1) :
                            OccursAt(s, <<"(", ")">>, j)}
    IN  IF cands = {} THEN <<>>
        ELSE LET i == CHOOSE x \in cands : \A y \in cands : x <= y
                 last == CHOOSE j \in (WordEnd(s, i) + 1)..(LineEnd(s, i) - 1) :
                            /\ OccursAt(s, <<"(", ")">>, j)
                            /\ \A k \in (j + 1)..(LineEnd(s, i) - 1) :
                                   ~OccursAt(s, <<"(", ")">>, k)
             IN  <<SubSeq(s, i, WordEnd(s, i))>> \o CalledWords(s, last + 2)

\* the concepts with a keyword in the lowercased query, in table order
MatchedConcepts(query_lower) ==
    LET hit == SelectSeq(concept_keywords,
                   LAMBDA ck : \E kw \in ck.keywords : Contains(query_lower, kw))
    IN  [k \in 1..Len(hit) |-> hit[k].concept]

\* a context that looks for the debugging keywords first
ContextOf_DebuggingFirst(query_lower) ==
    LET any(words) == \E w \in words : Contains(query_lower, w)
    IN  IF any({<<"e", "r", "r", "o", "r">>, <<"b", "u", "g">>,
                <<"f", "i", "x">>, <<"d", "e", "b", "u", "g">>}) THEN "debugging"
        ELSE IF any({<<"d", "e", "s", "i", "g", "n">>,
                     <<"a", "r", "c", "h", "i", "t", "e", "c", "t", "u", "r", "e">>,
                     <<"p", "a", "t", "t", "e", "r", "n">>}) THEN "design"
        ELSE IF any({<<"p", "e", "r", "f", "o", "r", "m", "a", "n", "c", "e">>,
                     <<"o", "p", "t", "i", "m", "i", "z", "e">>,
                     <<"f", "a", "s", "t">>}) THEN "performance"
        ELSE "implementation"

ContextOf(query_lower) ==
    LET any(words) == \E w \in words : Contains(query_lower, w)
    IN  IF any({<<"d", "e", "s", "i", "g", "n">>,
                <<"a", "r", "c", "h", "i", "t", "e", "c", "t", "u", "r", "e">>,
                <<"p", "a", "t", "t", "e", "r", "n">>}) THEN "design"
        ELSE IF any({<<"e", "r", "r", "o", "r">>, <<"b", "u", "g">>,
                     <<"f", "i", "x">>, <<"d", "e", "b", "u", "g">>}) THEN "debugging"
        ELSE IF any({<<"p", "e", "r", "f", "o", "r", "m", "a", "n", "c", "e">>,
                     <<"o", "p", "t", "i", "m", "i", "z", "e">>,
                     <<"f", "a", "s", "t">>}) THEN "performance"
        ELSE "implementation"

\* IntentRecognizer.recognize (the specificity is left out)
recognize(query) ==
    LET query_lower == Lower(query)
    IN  [intent_type |-> PickIntent(query_lower, 1, "find_code", 0),
         entities |-> CapitalizedWords(query) \o CalledWords(query, 1),
         concepts |-> MatchedConcepts(query_lower),
         context |-> ContextOf(query_lower)]

(***************************************************************************)
(* CodeEntity (brain_v2.py 74-91).  id is file_path:start_line.            *)
(***************************************************************************)
EntityId(file_path, start_line) == <<file_path, start_line>>

CodeEntity(file_path, type, name, content, docstring, signature, start_line, end_line, imports, exports) ==
    [id |-> EntityId(file_path, start_line), type |-> type, name |-> name,
     content |-> content, docstring |-> docstring, signature |-> signature,
     file_path |-> file_path, start_line |-> start_line, end_line |-> end_line,
     imports |-> imports, exports |-> exports]

(***************************************************************************)
(* CodeGraph (brain_v2.py 517-563).  A defaultdict(list) is a function on  *)
(* the keys that were appended to; a key that is absent reads as [].       *)
(***************************************************************************)
CodeGraphInit ==
    /\ nodes = <<>>
    /\ edges = <<>>
    /\ import_map = <<>>
    /\ reverse_deps = <<>>

Lookup(d, k) == IF k \in DOMAIN d THEN d[k] ELSE <<>>

NodeIds(ns) == {ns[i].id : i \in 1..Len(ns)}

NodeOf(ns, id) == ns[CHOOSE i \in 1..Len(ns) : ns[i].id = id]

\* self.nodes[entity.id] = entity: a dict keeps the position of a key it has
DictPut(ns, entity) ==
    IF entity.id \in NodeIds(ns)
    THEN [i \in 1..Len(ns) |-> IF ns[i].id = entity.id THEN entity ELSE ns[i]]
    ELSE Append(ns, entity)

\* number of occurrences of x in the list s
Count(s, x) == Cardinality({i \in 1..Len(s) : s[i] = x})

\* the list x, x, ... of length n
Repeat(x, n) == [i \in 1..n |-> x]

\* ids of the nodes that export imp, in the order of nodes.items()
Exporters(ns, imp) ==
    LET hit == SelectSeq(ns, LAMBDA node : imp \in Range(node.exports))
    IN  [i \in 1..Len(hit) |-> hit[i].id]

RECURSIVE FoundDependencies(_, _, _)
\* the ids appended to edges[entity.id] by the loops of lines 535-540
FoundDependencies(ns, imports, i) ==
    IF i > Len(imports) THEN <<>>
    ELSE Exporters(ns, imports[i]) \o FoundDependencies(ns, imports, i + 1)

\* CodeGraph.add_entity: the graph g after the call
add_entity(g, entity) ==
    LET ns == DictPut(g.nodes, entity)
        deps == FoundDependencies(ns, entity.imports, 1)
    IN  [g EXCEPT
          !.nodes = ns,
          !.import_map =
              [imp \in (DOMAIN g.import_map) \cup Range(entity.imports) |->
                  Lookup(g.import_map, imp)
                      \o Repeat(entity.id, Count(entity.imports, imp))],
          !.edges =
              IF deps = <<>> THEN g.edges
              ELSE [id \in (DOMAIN g.edges) \cup {entity.id} |->
                      IF id = entity.id THEN Lookup(g.edges, id) \o deps
                      ELSE g.edges[id]],
          !.reverse_deps =
              [id \in (DOMAIN g.reverse_deps) \cup Range(deps) |->
                  Lookup(g.reverse_deps, id) \o Repeat(entity.id, Count(deps, id))]]

\* the graph held in the state variables
Graph ==
    [nodes |-> nodes, edges |-> edges, import_map |-> import_map,
     reverse_deps |-> reverse_deps]

\* the state variables of the graph take the values of g
SetGraph(g) ==
    /\ nodes' = g.nodes
    /\ edges' = g.edges
    /\ import_map' = g.import_map
    /\ reverse_deps' = g.reverse_deps

\* set.add on a Python set kept as the list of its members
SetAdd(s, x) == IF x \in Range(s) THEN s ELSE Append(s, x)

RECURSIVE AddAll(_, _)
\* related.add(node_id) for every node_id of the frontier
AddAll(related, frontier) ==
    IF frontier = {} THEN related
    ELSE LET node_id == CHOOSE x \in frontier : TRUE
         IN  AddAll(SetAdd(related, node_id), frontier \ {node_id})

RECURSIVE SeqOfSet(_)
\* the members of a finite set in some order
SeqOfSet(S) ==
    IF S = {} THEN <<>>
    ELSE LET x == CHOOSE y \in S : TRUE IN <<x>> \o SeqOfSet(S \ {x})

RECURSIVE RelatedList(_, _, _, _)
RelatedList(es, related, frontier, depth) ==
    IF depth = 0 THEN related
    ELSE LET new_frontier == UNION {Range(Lookup(es, node_id)) : node_id \in frontier}
         IN  RelatedList(es, related \o SeqOfSet(frontier), new_frontier, depth - 1)

\* get_related with related kept as a list and a frontier that is not pruned
get_related_AsList(es, entity_id, depth) ==
    RelatedList(es, <<>>, {entity_id}, depth)

RECURSIVE Expand(_, _, _, _)
\* the loop of get_related: depth rounds over the frontier
Expand(es, related, frontier, depth) ==
    IF depth = 0 THEN related
    ELSE LET related2 == AddAll(related, frontier)
             new_frontier == UNION {Range(Lookup(es, node_id)) : node_id \in frontier}
         IN  Expand(es, related2, new_frontier \ Range(related2), depth - 1)

\* CodeGraph.get_related over the edge map es; list(related) is returned in
\* the order the ids were added
get_related(es, entity_id, depth) == Expand(es, <<>>, {entity_id}, depth)

(***************************************************************************)
(* Bounds of the cache model.                                              *)
(***************************************************************************)
CacheCapacity == 2
NumCacheKeys == 4

CacheKeys == 1..NumCacheKeys
CacheValues == {<<>>, <<"r1">>, <<"r2", "r1">>}

RECURSIVE SumLen(_, _)
\* sum(len(v) for v in d.values()) over the keys in ks
SumLen(d, ks) ==
    IF ks = {} THEN 0
    ELSE LET k == CHOOSE x \in ks : TRUE IN Len(d[k]) + SumLen(d, ks \ {k})

\* graph_edges of get_stats
graph_edges(es) == SumLen(es, DOMAIN es)

(***************************************************************************)
(* SmartCache (brain_v2.py 567-595).                                       *)
(***************************************************************************)
max_size == CacheCapacity

SmartCacheInit ==
    /\ cache = <<>>
    /\ access_order = <<>>
    /\ recency = <<>>

\* the cache held in the state variables
SmartCache == [cache |-> cache, access_order |-> access_order, recency |-> recency]

\* the state variables of the cache take the values of c
SetSmartCache(c) ==
    /\ cache' = c.cache
    /\ access_order' = c.access_order
    /\ recency' = c.recency

\* a get that leaves the access order alone
GetPromote_NoPromote(order, key) == order

\* the access order after a successful get of key
GetPromote(order, key) == Append(RemoveFirst(order, key), key)

\* SmartCache.get: the cache after the call
SmartCacheGet(c, key) ==
    IF key \in DOMAIN c.cache
    THEN [c EXCEPT !.access_order = GetPromote(@, key),
                   !.recency = Append(Without(@, key), key)]
    ELSE c

\* SmartCache.get: the returned value
SmartCacheGetValue(c, key) ==
    IF key \in DOMAIN c.cache THEN Some(c.cache[key]) ELSE None

\* the key put evicts when a new key arrives at a full cache
LruKey(order) == Head(order)

\* SmartCache.put: the cache after the call
SmartCachePut(c, key, value) ==
    LET c1 == IF key \in DOMAIN c.cache
              THEN [c EXCEPT !.access_order = RemoveFirst(@, key)]
              ELSE IF Cardinality(DOMAIN c.cache) >= max_size
              THEN LET lru_key == LruKey(c.access_order)
                   IN  [c EXCEPT !.access_order = Tail(@),
                                 !.cache = DictDel(@, lru_key)]
              ELSE c
    IN  [c1 EXCEPT !.cache = DictSet(@, key, value),
                   !.access_order = Append(@, key),
                   !.recency = Append(Without(@, key), key)]

\* the wholesale clear of brain_v2_purge (cache.clear(); access_order.clear())
SmartCacheClear(c) == [c EXCEPT !.cache = <<>>, !.access_order = <<>>]

(***************************************************************************)
(* BrainV2: readiness and the memory table (brain_v2.py 599-622, 781-796). *)
(***************************************************************************)
NoCall == [op |-> "none"]

\* the state of a brain whose background initialization has completed, with
\* empty tables and no watched file
BrainReady ==
    /\ ready = TRUE
    /\ fs = <<>>
    /\ table = <<>>
    /\ entity_cache = <<>>
    /\ memory_table = <<>>
    /\ query_history = <<>>

\* the rows BrainV2.remember adds to memory_table (vector and timestamp are
\* left out)
remember(is_ready, content, kind, context) ==
    IF ~is_ready THEN <<>>
    ELSE <<[content |-> content, type |-> kind, context |-> context]>>

(***************************************************************************)
(* BrainV2._track_evolution (brain_v2.py 880-908).                         *)
(***************************************************************************)
TrackedTypes == {"function", "method", "class"}

RECURSIVE NameMap(_, _)
\* {e.name: e for e in entities if e.type in (...)}: a dict, as the list of
\* its values in key order; a repeated name keeps its place and takes the
\* later entity
NameMap(entities, i) ==
    IF i = 0 THEN <<>>
    ELSE LET m == NameMap(entities, i - 1)
             e == entities[i]
         IN  IF e.type \notin TrackedTypes THEN m
             ELSE IF \E j \in 1..Len(m) : m[j].name = e.name
             THEN [j \in 1..Len(m) |-> IF m[j].name = e.name THEN e ELSE m[j]]
             ELSE Append(m, e)

MapNames(m) == {m[j].name : j \in 1..Len(m)}

MapGet(m, name) == m[CHOOSE j \in 1..Len(m) : m[j].name = name]

\* a comparison of the raw contents
ContentChanged_Raw(new_e, old_e) == new_e.content # old_e.content

\* the test that decides whether an entity present in both maps was modified
ContentChanged(new_e, old_e) == Strip(new_e.content) # Strip(old_e.content)

\* the description of one change; sig holds the signature note, if any
ChangeDesc(change, e, file_name, sig) ==
    [change |-> change, type |-> e.type, name |-> e.name,
     file |-> file_name, signature_changed |-> sig]

RECURSIVE CheckNew(_, _, _, _, _)
\* the loop over new_map.items(): modifications and creations
CheckNew(is_ready, file_path, old_map, new_map, i) ==
    IF i > Len(new_map) THEN <<>>
    ELSE LET new_e == new_map[i]
             file_name == FileName(file_path)
             rows ==
                IF new_e.name \in MapNames(old_map)
                THEN LET old_e == MapGet(old_map, new_e.name)
                     IN  IF ContentChanged(new_e, old_e)
                         THEN remember(is_ready,
                                  ChangeDesc("Modified", new_e, file_name,
                                      IF new_e.signature # old_e.signature
                                      THEN Some(<<old_e.signature, new_e.signature>>)
                                      ELSE None),
                                  "evolution", file_path)
                         ELSE <<>>
                ELSE remember(is_ready, ChangeDesc("Created", new_e, file_name, None),
                              "evolution", file_path)
         IN  rows \o CheckNew(is_ready, file_path, old_map, new_map, i + 1)

RECURSIVE CheckDeleted(_, _, _, _, _)
\* the loop over old_map: deletions
CheckDeleted(is_ready, file_path, old_map, new_map, i) ==
    IF i > Len(old_map) THEN <<>>
    ELSE LET old_e == old_map[i]
             rows == IF old_e.name \notin MapNames(new_map)
                     THEN remember(is_ready,
                              ChangeDesc("Deleted", old_e, FileName(file_path), None),
                              "evolution", file_path)
                     ELSE <<>>
         IN  rows \o CheckDeleted(is_ready, file_path, old_map, new_map, i + 1)

\* the rows _track_evolution stores, in the order it stores them
_track_evolution(is_ready, file_path, old_entities, new_entities) ==
    LET old_map == NameMap(old_entities, Len(old_entities))
        new_map == NameMap(new_entities, Len(new_entities))
    IN  CheckNew(is_ready, file_path, old_map, new_map, 1)
            \o CheckDeleted(is_ready, file_path, old_map, new_map, 1)

(***************************************************************************)
(* File paths.  A path is a string whose last element is its suffix.       *)
(***************************************************************************)
SuffixTokens == {".py", ".rs", ".ts", ".tsx", ".js", ".md"}

\* Path(p).suffix
Suffix(p) == IF p # <<>> /\ p[Len(p)] \in SuffixTokens THEN p[Len(p)] ELSE ""

\* the suffixes index_file and on_modified accept: the keys of
\* EXTENSION_PARSERS and the list ['.rs', '.ts', '.tsx', '.js']
IndexedSuffixes == {".py", ".rs", ".ts", ".tsx", ".js"}

(***************************************************************************)
(* ASTCodeParser.parse_file (brain_v2.py 133-242).  A source text is given *)
(* by what the parser finds in it: the imports of the file and its         *)
(* declarations in the order the parser emits them.                        *)
(***************************************************************************)
Decl(type, name, content, docstring, signature, start_line, end_line, exports) ==
    [type |-> type, name |-> name, content |-> content, docstring |-> docstring,
     signature |-> signature, start_line |-> start_line, end_line |-> end_line,
     exports |-> exports]

SourceText(imports, decls) == [imports |-> imports, decls |-> decls]

\* the entities of one file: every entity carries the imports of the file
parse_file(file_path, content) ==
    [i \in 1..Len(content.decls) |->
        LET d == content.decls[i]
        IN  CodeEntity(file_path, d.type, d.name, d.content, d.docstring,
                       d.signature, d.start_line, d.end_line,
                       content.imports, d.exports)]

(***************************************************************************)
(* The rows of codebase_v2 (brain_v2.py 855-871, 991-1010); vector,        *)
(* complexity, metadata and timestamp are left out.                        *)
(***************************************************************************)
\* x or ""
OrEmpty(opt) == IF opt = None THEN <<>> ELSE opt[1]

Chunk(entity, file_path) ==
    [entity_id |-> entity.id, type |-> entity.type, name |-> entity.name,
     content |-> entity.content, docstring |-> OrEmpty(entity.docstring),
     signature |-> OrEmpty(entity.signature), file_path |-> file_path,
     start_line |-> entity.start_line, end_line |-> entity.end_line,
     imports |-> entity.imports, exports |-> entity.exports]

\* BrainV2._reconstruct_entity; docstring and signature are the stored strings
_reconstruct_entity(db_result) ==
    [id |-> db_result.entity_id, type |-> db_result.type, name |-> db_result.name,
     content |-> db_result.content, docstring |-> db_result.docstring,
     signature |-> db_result.signature, file_path |-> db_result.file_path,
     start_line |-> db_result.start_line, end_line |-> db_result.end_line,
     imports |-> db_result.imports, exports |-> db_result.exports]

\* table.delete("file_path = '<path>'")
DeleteFilePath(tbl, path) == SelectSeq(tbl, LAMBDA row : row.file_path # path)

\* table.delete("file_path LIKE '%<pattern>%'"): LIKE compares case-sensitively
DeleteLike(tbl, pattern) == SelectSeq(tbl, LAMBDA row : ~Contains(row.file_path, pattern))

(***************************************************************************)
(* BrainV2.index_file (brain_v2.py 813-878) on the part of the state it    *)
(* touches: b has the fields table, entity_cache, memory_table and those   *)
(* of the graph.  The vector store is taken to work.                       *)
(***************************************************************************)
Brain ==
    [table |-> table, entity_cache |-> entity_cache, memory_table |-> memory_table,
     nodes |-> nodes, edges |-> edges, import_map |-> import_map,
     reverse_deps |-> reverse_deps]

SetBrain(b) ==
    /\ table' = b.table
    /\ entity_cache' = b.entity_cache
    /\ memory_table' = b.memory_table
    /\ SetGraph(b)

RECURSIVE IndexEntities(_, _, _, _)
\* the loop of lines 837-871 from entity i on: add the entity to the graph,
\* store the list in the entity cache
IndexEntities(b, path, new_entities, i) ==
    IF i > Len(new_entities) THEN b
    ELSE LET g == add_entity(b, new_entities[i])
             b2 == [g EXCEPT !.entity_cache = DictSet(b.entity_cache, path, new_entities)]
         IN  IndexEntities(b2, path, new_entities, i + 1)

\* the chunks of the entities, in order
Chunks(new_entities, path) ==
    [i \in 1..Len(new_entities) |-> Chunk(new_entities[i], path)]

\* index_file past the readiness check
IndexReadyFile(b, is_ready, files, path) ==
    IF Suffix(path) \notin IndexedSuffixes THEN b
    ELSE IF path \notin DOMAIN files THEN b
    ELSE LET new_entities == parse_file(path, files[path])
             old_entities == Lookup(b.entity_cache, path)
             b1 == IF old_entities # <<>>
                   THEN [b EXCEPT !.memory_table =
                            @ \o _track_evolution(is_ready, path, old_entities, new_entities)]
                   ELSE b
             b2 == [b1 EXCEPT !.table = DeleteFilePath(@, path)]
             b3 == IndexEntities(b2, path, new_entities, 1)
         IN  [b3 EXCEPT !.table = @ \o Chunks(new_entities, path)]

\* an index_file that does not look at ready
index_file_Unguarded(b, is_ready, files, path) == IndexReadyFile(b, is_ready, files, path)

index_file(b, is_ready, files, path) ==
    IF ~is_ready THEN b ELSE IndexReadyFile(b, is_ready, files, path)

\* the number of calls index_file makes on the code table
IndexStoreCalls(b, is_ready, files, path) ==
    IF ~is_ready \/ Suffix(path) \notin IndexedSuffixes \/ path \notin DOMAIN files
    THEN 0
    ELSE IF parse_file(path, files[path]) = <<>> THEN 1 ELSE 2

(***************************************************************************)
(* BrainV2EventHandler.on_deleted (brain_v2.py 1095-1113).                 *)
(***************************************************************************)
\* an on_deleted that deletes the rows and keeps the entry of the entity cache
on_deleted_KeepCache(b, is_directory, path, delete_raises) ==
    IF is_directory \/ delete_raises THEN b
    ELSE IF Suffix(path) \notin {".py", ".rs", ".ts", ".tsx", ".js"} THEN b
    ELSE [b EXCEPT !.table = DeleteFilePath(@, path)]

\* on_deleted where delete_raises tells whether table.delete raises: the
\* except clause then ends the try block before the entity cache is touched
on_deleted(b, is_directory, path, delete_raises) ==
    IF is_directory THEN b
    ELSE IF Suffix(path) \notin {".py", ".rs", ".ts", ".tsx", ".js"} THEN b
    ELSE IF delete_raises THEN b
    ELSE [b EXCEPT !.table = DeleteFilePath(@, path),
                   !.entity_cache = IF path \in DOMAIN @ THEN DictDel(@, path) ELSE @]

(***************************************************************************)
(* brain_v2_purge (brain_v2.py 1314-1344) on the table and entity cache.   *)
(***************************************************************************)
\* pattern.lower() in fp.lower()
MatchesPattern(pattern, fp) == Contains(Lower(fp), Lower(pattern))

\* the number of rows whose file path matches
PurgeCount(tbl, pattern) ==
    Cardinality({i \in 1..Len(tbl) : MatchesPattern(pattern, tbl[i].file_path)})

\* the keys removed from the entity cache
keys_to_remove(ec, pattern) == {k \in DOMAIN ec : MatchesPattern(pattern, k)}

purge(b, pattern) ==
    IF PurgeCount(b.table, pattern) = 0 THEN b
    ELSE [b EXCEPT !.table = DeleteLike(@, pattern),
                   !.entity_cache =
                       [k \in (DOMAIN @) \ keys_to_remove(@, pattern) |-> @[k]]]

(***************************************************************************)
(* BrainV2.query (brain_v2.py 910-1032).  A distance is an integer and a   *)
(* score is kept in thousandths of the distance unit: the factor 0.8 is 8, *)
(* 0.7 is 7, 0.6 is 6 and no factor is 10, one factor for each of the      *)
(* three boosts.                                                           *)
(***************************************************************************)
HistoryCap == 1

\* a deque that drops the new element when it is full
DequeAppend_DropNewest(d, x) == IF Len(d) >= HistoryCap THEN d ELSE Append(d, x)

\* collections.deque(maxlen=...).append
DequeAppend(d, x) == IF Len(d) >= HistoryCap THEN Append(Tail(d), x) ELSE Append(d, x)

\* the boost based on intent (lines 937-945)
IntentFactor(intent, entity) ==
    IF intent.intent_type = "find_code"
    THEN IF entity.type \in {"function", "class", "method"} THEN 8 ELSE 10
    ELSE IF intent.intent_type = "explain"
    THEN IF entity.docstring # <<>> THEN 7 ELSE 10
    ELSE 10

\* some query entity is a substring of the entity name, case-insensitively
NameMatches(intent, entity) ==
    \E i \in 1..Len(intent.entities) :
        Contains(Lower(entity.name), Lower(intent.entities[i]))

\* a name match that does not lower the score
EntityFactor_NoBoost(intent, entity) == 10

\* the boost based on entity matching (lines 947-952)
EntityFactor(intent, entity) == IF NameMatches(intent, entity) THEN 6 ELSE 10

\* some concept tag is a substring of the entity content, case-insensitively
ConceptMatches(intent, entity) ==
    \E i \in 1..Len(intent.concepts) :
        Contains(Lower(entity.content), Lower(intent.concepts[i]))

\* the boost based on concepts (lines 954-959)
ConceptFactor(intent, entity) == IF ConceptMatches(intent, entity) THEN 7 ELSE 10

\* the final score of a candidate at the given distance
Score(intent, entity, distance) ==
    distance * IntentFactor(intent, entity) * EntityFactor(intent, entity)
             * ConceptFactor(intent, entity)

\* BrainV2._explain_match: the reasons, joined by ", " in the code
_explain_match(intent, entity) ==
    LET by_intent ==
            IF intent.intent_type = "find_code"
            THEN <<<<"Matches", entity.type, entity.name>>>>
            ELSE IF intent.intent_type = "explain"
            THEN (IF entity.docstring # <<>> THEN <<<<"Has documentation">>>> ELSE <<>>)
                     \o <<<<"Describes", entity.type>>>>
            ELSE <<>>
        by_name == IF NameMatches(intent, entity)
                   THEN <<<<"Name matches query">>>> ELSE <<>>
        hits == SelectSeq(intent.concepts,
                    LAMBDA concept : Contains(Lower(entity.content), Lower(concept)))
        by_concept == IF hits # <<>> THEN <<<<"Contains", Head(hits)>>>> ELSE <<>>
        reasons == by_intent \o by_name \o by_concept
    IN  IF reasons # <<>> THEN reasons ELSE <<<<"Semantic similarity">>>>

\* s[:n]
Take(s, n) == SubSeq(s, 1, IF n < Len(s) THEN n ELSE Len(s))

\* the names of the related ids that are nodes of the graph, at most three
RelatedNames(g, entity_id) ==
    LET related_ids == get_related(g.edges, entity_id, 1)
        known == SelectSeq(related_ids, LAMBDA rid : rid \in NodeIds(g.nodes))
    IN  Take([i \in 1..Len(known) |-> NodeOf(g.nodes, known[i]).name], 3)

\* the SearchResult of one candidate vr of the vector search
SearchResult(intent, g, vr) ==
    LET entity == _reconstruct_entity(vr.row)
    IN  [entity |-> entity,
         score |-> Score(intent, entity, vr.distance),
         reason |-> _explain_match(intent, entity),
         related |-> RelatedNames(g, entity.id)]

\* a sort that puts a result before the results of equal score
InsertByScore_Unstable(sorted, r) ==
    LET before == SelectSeq(sorted, LAMBDA x : x.score < r.score)
        after == SelectSeq(sorted, LAMBDA x : x.score >= r.score)
    IN  before \o <<r>> \o after

\* list.sort(key=score) is stable: r goes behind the results of equal score
InsertByScore(sorted, r) ==
    LET before == SelectSeq(sorted, LAMBDA x : x.score <= r.score)
        after == SelectSeq(sorted, LAMBDA x : x.score > r.score)
    IN  before \o <<r>> \o after

RECURSIVE SortByScore(_, _)
\* results.sort(key=lambda r: r.score) of the first i results
SortByScore(results, i) ==
    IF i = 0 THEN <<>>
    ELSE InsertByScore(SortByScore(results, i - 1), results[i])

\* stages 3 and 4: re-rank the candidates, sort and keep n
Rerank(intent, g, vector_results, n) ==
    LET results == [i \in 1..Len(vector_results) |->
                        SearchResult(intent, g, vector_results[i])]
    IN  Take(SortByScore(results, Len(results)), n)

\* what table.search(vector).limit(k).to_list() may return: up to k
\* different rows of the table in any order, each with a distance from dists
SearchOutcomes(tbl, k, dists) ==
    LET m == IF k < Len(tbl) THEN k ELSE Len(tbl)
        picks == UNION {[1..len -> (1..Len(tbl)) \X dists] : len \in 0..m}
    IN  { [i \in 1..Len(pick) |-> [row |-> tbl[pick[i][1]], distance |-> pick[i][2]]] :
            pick \in {f \in picks : \A i, j \in 1..Len(f) : f[i][1] = f[j][1] => i = j} }

\* the outcomes of a search that returns as many rows as it may
FullOutcomes(tbl, k, dists) ==
    {o \in SearchOutcomes(tbl, k, dists) : Len(o) = k \/ Len(o) = Len(tbl)}

\* the list query(text, n) returns when the vector search returns
\* vector_results
QueryResults(text, n, vector_results) ==
    LET cached == SmartCacheGetValue(SmartCache, <<text, n>>)
    IN  IF ~ready THEN <<>>
        ELSE IF cached # None /\ cached[1] # <<>> THEN cached[1]
        ELSE Rerank(recognize(text), Graph, vector_results, n)

\* query(text, n) when the vector search returns vector_results, reported
\* in ret as the operation op together with rest, what the caller makes
\* of the returned list
QueryWith(op, text, n, vector_results, rest) ==
    IF ~ready
    THEN /\ ret' = [op |-> op, text |-> text, n |-> n, value |-> <<>>,
                    not_ready |-> TRUE, hit |-> FALSE, store_calls |-> 0,
                    vector_results |-> <<>>] @@ rest
         /\ UNCHANGED <<cacheVars, graphVars, brainVars>>
    ELSE LET cache_key == <<text, n>>
             cached == SmartCacheGetValue(SmartCache, cache_key)
             c1 == SmartCacheGet(SmartCache, cache_key)
         IN  IF cached # None /\ cached[1] # <<>>
             THEN /\ SetSmartCache(c1)
                  /\ ret' = [op |-> op, text |-> text, n |-> n,
                             value |-> cached[1], not_ready |-> FALSE,
                             hit |-> TRUE, store_calls |-> 0,
                             vector_results |-> <<>>] @@ rest
                  /\ UNCHANGED <<graphVars, brainVars>>
             ELSE \E intent \in {recognize(text)} :
                  LET final_results == Rerank(intent, Graph, vector_results, n)
                  IN  /\ SetSmartCache(SmartCachePut(c1, cache_key, final_results))
                      /\ query_history' = DequeAppend(query_history,
                             [text |-> text, intent |-> intent.intent_type,
                              results |-> [i \in 1..Len(final_results) |->
                                              final_results[i].entity.id]])
                      /\ ret' = [op |-> op, text |-> text, n |-> n,
                                 value |-> final_results, not_ready |-> FALSE,
                                 hit |-> FALSE, store_calls |-> 1,
                                 vector_results |-> vector_results]
                                    @@ rest
                      /\ UNCHANGED <<graphVars, ready, fs, table, entity_cache,
                                     memory_table>>

QueryAs(op, text, n, vector_results) ==
    QueryWith(op, text, n, vector_results, [op |-> op])

query(text, n, vector_results) == QueryAs("query", text, n, vector_results)

(***************************************************************************)
(* The remaining operations of BrainV2 and of the exported API             *)
(* (brain_v2.py 798-811, 1034-1047, 1136-1364).                            *)
(***************************************************************************)
\* BrainV2.recall: the dicts built from the rows the memory search returns
recall(results) ==
    [i \in 1..Len(results) |->
        [content |-> results[i].row.content, type |-> results[i].row.type,
         context |-> results[i].row.context, score |-> results[i].distance]]

\* BrainV2.get_stats of a ready brain; recent_queries is left out
get_stats ==
    [ready |-> TRUE,
     entities_indexed |-> Len(nodes),
     cache_size |-> Cardinality(DOMAIN cache),
     query_history_size |-> Len(query_history),
     graph_nodes |-> Len(nodes),
     graph_edges |-> graph_edges(edges)]

\* CodeGraph.find_by_name
find_by_name(ns, name) ==
    LET hits == SelectSeq(ns, LAMBDA node :
                    Lower(node.name) = Lower(name) \/ Contains(Lower(node.name), Lower(name)))
    IN  [i \in 1..Len(hits) |-> hits[i].id]

\* CodeGraph.get_callers
get_callers(g, entity_id) == Lookup(g.reverse_deps, entity_id)

\* the names of the ids that are nodes of the graph
NamesOf(g, ids) ==
    LET known == SelectSeq(ids, LAMBDA id : id \in NodeIds(g.nodes))
    IN  [i \in 1..Len(known) |-> NodeOf(g.nodes, known[i]).name]

\* brain_v2_graph of a ready brain
brain_v2_graph(g, entity_name) ==
    LET entity_ids == find_by_name(g.nodes, entity_name)
    IN  IF entity_ids = <<>> THEN [error |-> "Entity not found"]
        ELSE LET entity_id == entity_ids[1]
             IN  [entity |-> NodeOf(g.nodes, entity_id),
                  related |-> NamesOf(g, get_related(g.edges, entity_id, 2)),
                  callers |-> NamesOf(g, get_callers(g, entity_id))]

\* p is a path below the directory dir
IsUnder(p, dir) == Len(p) > Len(dir) /\ SubSeq(p, 1, Len(dir)) = dir

\* the files os.walk finds below dir that brain_v2_index_dir hands to index_file
WalkFiles(files, dir) ==
    {p \in DOMAIN files : IsUnder(p, dir) /\ Suffix(p) \in IndexedSuffixes}

RECURSIVE IndexAll(_, _, _, _, _)
\* index_file of the files of order from position i on
IndexAll(b, is_ready, files, order, i) ==
    IF i > Len(order) THEN b
    ELSE IndexAll(index_file(b, is_ready, files, order[i]), is_ready, files, order, i + 1)

\* the orders in which os.walk may yield the files
WalkOrders(ps) ==
    {order \in [1..Cardinality(ps) -> ps] :
        \A i, j \in 1..Cardinality(ps) : order[i] = order[j] => i = j}

\* brain_v2_purge of a ready brain: the result cache after the call
PurgeSmartCache(c, tbl, pattern) ==
    IF PurgeCount(tbl, pattern) = 0 THEN c ELSE SmartCacheClear(c)

(***************************************************************************)
(* BrainV2EventHandler (brain_v2.py 1051-1125).  Times are counted in      *)
(* half seconds; time.time() reads the seconds since 1970.                 *)
(***************************************************************************)
\* BrainV2EventHandler.__init__; no notification has been let through yet
WatcherInit ==
    /\ last_event = 0
    /\ accepted = <<>>

\* self.debounce_seconds = 1.5, in half seconds
debounce_seconds == 3

\* the directories the watcher does not index
ignore_dirs ==
    {<<"t", "a", "r", "g", "e", "t">>,
     <<"n", "o", "d", "e", "_", "m", "o", "d", "u", "l", "e", "s">>,
     <<"d", "i", "s", "t">>,
     <<"b", "u", "i", "l", "d">>,
     <<"g", "e", "n">>,
     <<"c", "o", "v", "e", "r", "a", "g", "e">>,
     <<".", "g", "i", "t">>,
     <<".", "v", "s", "c", "o", "d", "e">>,
     <<".", "i", "d", "e", "a">>,
     <<".", "c", "a", "r", "g", "o">>,
     <<".", "c", "u", "r", "s", "o", "r", "-", "r", "u", "s", "t", "-", "t", "o", "o", "l", "s">>,
     <<".", "v", "e", "n", "v">>,
     <<"_", "_", "p", "y", "c", "a", "c", "h", "e", "_", "_">>,
     <<"s", "r", "c", "-", "p", "y", "t", "h", "o", "n">>,
     <<"d", "a", "t", "a">>,
     <<".", "o", "p", "e", "n", "m", "c", "p">>,
     <<".", "g", "e", "m", "i", "n", "i">>,
     <<".", "c", "l", "a", "u", "d", "e">>,
     <<".", "a", "g", "e", "n", "t">>,
     <<"i", "m", "p", "o", "r", "t", "s">>,
     <<"I", "M", "P", "O", "R", "T", "S">>,
     <<"a", "s", "s", "e", "t", "s">>,
     <<"p", "u", "b", "l", "i", "c">>,
     <<"d", "o", "c", "s">>,
     <<"i", "c", "o", "n", "s">>,
     <<"r", "e", "s", "o", "u", "r", "c", "e", "s">>,
     <<"c", "a", "p", "a", "b", "i", "l", "i", "t", "i", "e", "s">>,
     <<"b", "a", "c", "k", "u", "p", "s">>,
     <<"l", "o", "g", "s">>,
     <<"t", "m", "p">>,
     <<"t", "o", "o", "l", "s">>,
     <<"m", "c", "p", "-", "s", "e", "r", "v", "e", "r">>,
     <<"_", "l", "e", "g", "a", "c", "y">>}

RECURSIVE Split(_, _)
\* s.split(sep) for a one-character sep
Split(s, sep) ==
    LET seps == {i \in 1..Len(s) : s[i] = sep}
        i == IF seps = {} THEN Len(s) + 1
             ELSE CHOOSE k \in seps : \A m \in seps : k <= m
    IN  <<SubSeq(s, 1, i - 1)>>
            \o (IF i > Len(s) THEN <<>> ELSE Split(SubSeq(s, i + 1, Len(s)), sep))

\* Path(p).parts: the components of p between the "/"
Parts(p) == IF p = <<>> THEN <<>> ELSE Split(p, "/")

\* any(d in path.parts for d in ignore_dirs)
Ignored(path) == \E d \in ignore_dirs : d \in Range(Parts(path))

\* Path(p).stem: the name without its suffix
Stem(p) ==
    LET name == FileName(p)
    IN  IF Suffix(p) # "" THEN SubSeq(name, 1, Len(name) - 1) ELSE name

\* the importers by the file name with its suffix
Importers_ByFileName(cached, changed_file) ==
    {file_path \in DOMAIN cached :
        \E i \in 1..Len(cached[file_path]) :
            FileName(changed_file) \in Range(cached[file_path][i].imports)}

\* the keys of entity_cache one of whose entities imports the changed file
Importers(cached, changed_file) ==
    {file_path \in DOMAIN cached :
        \E i \in 1..Len(cached[file_path]) :
            Stem(changed_file) \in Range(cached[file_path][i].imports)}

\* _reindex_importers: index_file of the importers, in the order the
\* entity cache yields them
_reindex_importers(b, is_ready, files, order) == IndexAll(b, is_ready, files, order, 1)

\* a debounce that also drops a notification exactly one interval late
Debounced_Inclusive(last, now) == now - last <= debounce_seconds

\* now - self.last_event < self.debounce_seconds
Debounced(last, now) == now - last < debounce_seconds

\* an on_modified that runs the loop over the importers twice
on_modified_ReindexTwice(last, b, is_ready, files, is_directory, now, path, order) ==
    IF is_directory \/ Debounced(last, now)
    THEN [last_event |-> last, b |-> b, passed |-> FALSE, indexed |-> <<>>]
    ELSE IF Ignored(path) \/ Suffix(path) \notin IndexedSuffixes
    THEN [last_event |-> now, b |-> b, passed |-> TRUE, indexed |-> <<>>]
    ELSE [last_event |-> now,
          b |-> _reindex_importers(
                    _reindex_importers(index_file(b, is_ready, files, path),
                                       is_ready, files, order),
                    is_ready, files, order),
          passed |-> TRUE, indexed |-> <<path>> \o order \o order]

\* on_modified of a notification for path read at time now, where order is
\* the order of the importers: the new last_event, the brain, whether the
\* notification passed the debounce and the paths handed to index_file
on_modified(last, b, is_ready, files, is_directory, now, path, order) ==
    IF is_directory
    THEN [last_event |-> last, b |-> b, passed |-> FALSE, indexed |-> <<>>]
    ELSE IF Debounced(last, now)
    THEN [last_event |-> last, b |-> b, passed |-> FALSE, indexed |-> <<>>]
    ELSE IF Ignored(path)
    THEN [last_event |-> now, b |-> b, passed |-> TRUE, indexed |-> <<>>]
    ELSE IF Suffix(path) \in IndexedSuffixes
    THEN [last_event |-> now,
          b |-> _reindex_importers(index_file(b, is_ready, files, path),
                                   is_ready, files, order),
          passed |-> TRUE, indexed |-> <<path>> \o order]
    ELSE [last_event |-> now, b |-> b, passed |-> TRUE, indexed |-> <<>>]

(***************************************************************************)
(* PrivacyGuard (kos.scripts.privacy, imported at brain_v2.py 38): its     *)
(* source is not among the files; sanitize and desanitize are the pair of  *)
(* text transforms the specification describes, given the sensitive terms. *)
(* A sensitive word is put between brackets and taken out of them again.   *)
(***************************************************************************)
RECURSIVE Join(_, _)
\* sep.join(words), joining the two halves of the list
Join(words, sep) ==
    IF words = <<>> THEN <<>>
    ELSE IF Len(words) = 1 THEN words[1]
    ELSE LET half == Len(words) \div 2
         IN  Join(SubSeq(words, 1, half), sep) \o <<sep>>
                 \o Join(SubSeq(words, half + 1, Len(words)), sep)

Cloak(term) == <<"[">> \o term \o <<"]">>

sanitize(sensitive_terms, text) ==
    LET words == Split(text, " ")
    IN  Join([i \in 1..Len(words) |->
                 IF words[i] \in sensitive_terms THEN Cloak(words[i]) ELSE words[i]],
             " ")

desanitize(sensitive_terms, text) ==
    LET words == Split(text, " ")
    IN  Join([i \in 1..Len(words) |->
                 IF \E t \in sensitive_terms : words[i] = Cloak(t)
                 THEN SubSeq(words[i], 2, Len(words[i]) - 1) ELSE words[i]],
             " ")

(***************************************************************************)
(* brain_v2_ask past the context query (brain_v2.py 1175-1273).            *)
(***************************************************************************)
\* the prompt of lines 1181-1194 as far as it varies: the intent, the names,
\* types and contents of the context hits, the memories and the question
Prompt(intent_type, context_hits, memories, question) ==
    Join(<< <<intent_type>> >>
            \o [i \in 1..Len(context_hits) |->
                   Join(<<context_hits[i].entity.name,
                          <<context_hits[i].entity.type>>,
                          Take(context_hits[i].entity.content, 300)>>, " ")]
            \o [i \in 1..Len(memories) |->
                   Join(<< <<memories[i].type>>, memories[i].content >>, " ")]
            \o <<question>>,
         " ")

\* {node.name for node in code_graph.nodes.values()}
SensitiveTerms(ns) == {ns[i].name : i \in 1..Len(ns)}

\* the tiers list of lines 1206-1225
Tiers(gemini_client, openai_client) ==
    (IF gemini_client
     THEN <<[type |-> "google", name |-> "Privacy-Gemini"]>> ELSE <<>>)
    \o (IF openai_client
        THEN <<[type |-> "openai", name |-> "OpenRouter-GPT-OSS"]>> ELSE <<>>)

\* a cloaking that does not spare the trusted tier
Cloaked_EveryTier(privacy_guard, tier) == privacy_guard

\* line 1234: privacy_guard and tier['name'] != "Privacy-Gemini"
Cloaked(privacy_guard, tier) == privacy_guard /\ tier.name # "Privacy-Gemini"

RECURSIVE AskTiers_PastSuccess(_, _, _, _, _, _, _, _)
\* a loop that goes on to the next tier after an answer and returns the last
AskTiers_PastSuccess(tiers, i, prompt, privacy_guard, sensitive_terms, replies, llm_calls, last_error) ==
    IF i > Len(tiers)
    THEN [collapsed |-> last_error.text = None, text |-> OrEmpty(last_error.text),
          last_error |-> last_error.name, llm_calls |-> llm_calls]
    ELSE LET tier == tiers[i]
             is_sanitized == Cloaked(privacy_guard, tier)
             current_prompt ==
                 IF is_sanitized THEN sanitize(sensitive_terms, prompt) ELSE prompt
             reply == replies[tier.name]
         IN  AskTiers_PastSuccess(tiers, i + 1, prompt, privacy_guard,
                 sensitive_terms, replies,
                 Append(llm_calls, [name |-> tier.name, prompt |-> current_prompt,
                                    raised |-> reply = None]),
                 IF reply = None
                 THEN [name |-> Some(tier.name), text |-> last_error.text]
                 ELSE [name |-> last_error.name, text |-> reply])

RECURSIVE AskTiers(_, _, _, _, _, _, _, _)
\* the loop of lines 1227-1273 from tier i on, where replies[name] is the
\* text the tier answers with, or None if its call raises: what is returned
\* and the calls made, in order
AskTiers(tiers, i, prompt, privacy_guard, sensitive_terms, replies, llm_calls, last_error) ==
    IF i > Len(tiers)
    THEN [collapsed |-> TRUE, text |-> <<>>, last_error |-> last_error.name,
          llm_calls |-> llm_calls]
    ELSE LET tier == tiers[i]
             is_sanitized == Cloaked(privacy_guard, tier)
             current_prompt ==
                 IF is_sanitized THEN sanitize(sensitive_terms, prompt) ELSE prompt
             reply == replies[tier.name]
             sent == Append(llm_calls,
                            [name |-> tier.name, prompt |-> current_prompt,
                             raised |-> reply = None])
         IN  IF reply = None
             THEN AskTiers(tiers, i + 1, prompt, privacy_guard, sensitive_terms,
                           replies, sent,
                           [name |-> Some(tier.name), text |-> None])
             ELSE [collapsed |-> FALSE,
                   text |-> IF is_sanitized
                            THEN desanitize(sensitive_terms, reply[1])
                            ELSE reply[1],
                   last_error |-> last_error.name, llm_calls |-> sent]

\* brain_v2_ask from the prompt on: privacy_guard is set when PRIVACY_MODE
\* is "true" (the brain is ready here)
AskOracle(prompt, privacy_mode, ns, gemini_client, openai_client, replies) ==
    AskTiers(Tiers(gemini_client, openai_client), 1, prompt, privacy_mode,
             SensitiveTerms(ns), replies, <<>>, [name |-> None, text |-> None])

(***************************************************************************)
(* gatekeeper_evaluate (brain_v2.py 1470-1523).  The reply of the model is *)
(* given by what json.loads makes of it: kind is "invalid" when it is no   *)
(* JSON, "array" when it is JSON but no object, and "object" with the      *)
(* values of the three keys, None standing for a missing or null value.    *)
(***************************************************************************)
Allow == <<"a", "l", "l", "o", "w">>
Deny == <<"d", "e", "n", "y">>
Modify == <<"m", "o", "d", "i", "f", "y">>

\* the result of the not-ready path (lines 1471-1476)
GatekeeperNotReady(command) ==
    [decision |-> Allow, reason |-> <<"Brain not ready, allowing by default">>,
     safe_command |-> command]

\* the result of the except clause (lines 1517-1523) for the error e
GatekeeperError(command, e) ==
    [decision |-> Allow,
     reason |-> <<"Gatekeeper error, allowing by default: ", e>>,
     safe_command |-> command]

\* lines 1506-1508: str(data.get("decision", "allow")).lower(), replaced by
\* "allow" when it is none of the three
Decision(data) ==
    LET decision == IF data.decision = None THEN Allow ELSE Lower(data.decision[1])
    IN  IF decision \notin {Allow, Deny, Modify} THEN Allow ELSE decision

\* the try block of lines 1499-1516, where reply is None if the call raises
GatekeeperReply(command, reply) ==
    IF reply = None THEN GatekeeperError(command, "call")
    ELSE LET data == reply[1]
         IN  IF data.kind = "invalid" THEN GatekeeperError(command, "json")
             ELSE IF data.kind # "object" THEN GatekeeperError(command, "get")
             ELSE [decision |-> Decision(data),
                   reason |-> IF data.reason = None THEN <<>> ELSE data.reason[1],
                   safe_command |-> IF data.safe_command \in {None, Some(<<>>)}
                                    THEN command ELSE data.safe_command[1]]

(***************************************************************************)
(* ASTCodeParser on the text of a file (brain_v2.py 112-413).  A text is   *)
(* the list of its lines and a line the list of its tokens <<kind, name>>: *)
(* what the patterns of the strategies match ("fn", "struct", "function",  *)
(* "arrow", "class", "def", the import statements "use" and "import"),     *)
(* the braces, a documentation string "doc" and other text "x".            *)
(***************************************************************************)
EXTENSION_PARSERS ==
    (".py" :> "parse_python") @@ (".rs" :> "parse_rust")
        @@ (".ts" :> "parse_typescript") @@ (".tsx" :> "parse_typescript")
        @@ (".js" :> "parse_javascript")

\* the token the import pattern of an extension matches at the start of a line
import_patterns ==
    (".py" :> "import") @@ (".rs" :> "use") @@ (".ts" :> "import")
        @@ (".tsx" :> "import") @@ (".js" :> "import")

NL == <<"\n", "">>

\* the elements of s at the positions hits, in order
Select(s, hits) ==
    [k \in 1..Cardinality(hits) |->
        s[CHOOSE i \in hits : Cardinality({j \in hits : j < i}) = k - 1]]

\* "\n".join(lines)
TextOf(lines) == Join(lines, NL)

\* content[:pos].count('\n') + 1
LineOf(text, pos) == Cardinality({i \in 1..(pos - 1) : text[i] = NL}) + 1

\* the newlines in a piece of text
Newlines(text) == Cardinality({i \in 1..Len(text) : text[i] = NL})

\* the positions of text, in order, whose token is of one of the kinds
Matches(text, kinds) == Select([i \in 1..Len(text) |-> i], {i \in 1..Len(text) : text[i][1] \in kinds})

_extract_imports(content, ext) ==
    IF ext \notin DOMAIN import_patterns THEN <<>>
    ELSE LET hits == Select(content, {i \in 1..Len(content) :
                        content[i] # <<>> /\ content[i][1][1] = import_patterns[ext]})
         IN  [i \in 1..Len(hits) |-> <<hits[i][1][2]>>]

ChunkSize == 50

DigitChars == <<"0", "1", "2", "3", "4", "5", "6", "7", "8", "9">>

RECURSIVE Str(_)
\* str(n) of a natural number
Str(n) ==
    IF n < 10 THEN <<DigitChars[n + 1]>>
    ELSE Str(n \div 10) \o <<DigitChars[(n % 10) + 1]>>

RECURSIVE FallbackFrom(_, _, _)
\* the loop of _fallback_chunk from line i (counted from 0) on
FallbackFrom(file_path, content, i) ==
    IF i >= Len(content) THEN <<>>
    ELSE LET last == IF i + ChunkSize < Len(content) THEN i + ChunkSize ELSE Len(content)
             chunk == SubSeq(content, i + 1, last)
             rest == FallbackFrom(file_path, content, i + ChunkSize)
         IN  IF \A k \in 1..Len(chunk) : chunk[k] = <<>> THEN rest
             ELSE <<CodeEntity(file_path, "chunk", <<"chunk_">> \o Str(i \div ChunkSize),
                               TextOf(chunk), None, None, i, last,
                               _extract_imports(content, Suffix(file_path)), <<>>)>>
                      \o rest

\* a line-chunking that leaves out the trailing partial block
_fallback_chunk_WholeBlocks(file_path, content) ==
    FallbackFrom(file_path, SubSeq(content, 1, (Len(content) \div ChunkSize) * ChunkSize), 0)

_fallback_chunk(file_path, content) == FallbackFrom(file_path, content, 0)

\* the scan of lines 257-266: the position in rest of the first closing
\* brace that brings brace_count back to 0, 1 if there is none
ClosingBrace(rest) ==
    LET Depth(i) == Cardinality({k \in 1..i : rest[k][1] = "{"})
                        - Cardinality({k \in 1..i : rest[k][1] = "}"})
        closing == {i \in 1..Len(rest) : rest[i][1] = "}" /\ Depth(i) = 0}
    IN  IF closing = {} THEN 1
        ELSE CHOOSE i \in closing : \A k \in closing : i <= k

parse_rust(file_path, content) ==
    LET text == TextOf(content)
        funcs == Matches(text, {"fn"})
        structs == Matches(text, {"struct"})
        imports == _extract_imports(content, ".rs")
    IN  [k \in 1..Len(funcs) |->
            LET start_line == LineOf(text, funcs[k])
                rest == SubSeq(text, funcs[k], Len(text))
                func_content == SubSeq(rest, 1, ClosingBrace(rest))
                name == <<text[funcs[k]][2]>>
            IN  CodeEntity(file_path, "function", name, func_content, None,
                           Some(<<"fn ">> \o name), start_line,
                           start_line + Newlines(func_content), imports, <<name>>)]
        \o [k \in 1..Len(structs) |->
            LET start_line == LineOf(text, structs[k])
                name == <<text[structs[k]][2]>>
            IN  CodeEntity(file_path, "struct", name, <<text[structs[k]]>>, None,
                           Some(<<"struct ">> \o name), start_line, start_line,
                           imports, <<name>>)]

\* the declarations are taken without the export keyword
parse_typescript(file_path, content) ==
    LET text == TextOf(content)
        funcs == Matches(text, {"function", "arrow"})
        classes == Matches(text, {"class"})
        imports == _extract_imports(content, ".ts")
    IN  [k \in 1..Len(funcs) |->
            LET start_line == LineOf(text, funcs[k])
                name == <<text[funcs[k]][2]>>
            IN  CodeEntity(file_path, "function", name, <<text[funcs[k]]>>, None,
                           Some(<<"function ">> \o name), start_line, start_line,
                           imports, <<>>)]
        \o [k \in 1..Len(classes) |->
            LET start_line == LineOf(text, classes[k])
                name == <<text[classes[k]][2]>>
            IN  CodeEntity(file_path, "class", name, <<text[classes[k]]>>, None,
                           Some(<<"class ">> \o name), start_line, start_line,
                           imports, <<>>)]

parse_javascript(file_path, content) == parse_typescript(file_path, content)

\* ast.parse accepts the text: no token of another language, and a def or
\* a class only at the start of a line
PythonValid(content) ==
    \A i \in 1..Len(content) : \A k \in 1..Len(content[i]) :
        /\ content[i][k][1] \in {"def", "class", "import", "doc", "x"}
        /\ content[i][k][1] \in {"def", "class"} => k = 1

\* parse_python on one-line definitions: ast.walk yields them line by line
parse_python(file_path, content) ==
    IF ~PythonValid(content) THEN _fallback_chunk(file_path, content)
    ELSE LET imports == _extract_imports(content, ".py")
             defs == Select([i \in 1..Len(content) |-> i],
                        {i \in 1..Len(content) :
                            content[i] # <<>> /\ content[i][1][1] \in {"def", "class"}})
             body == Select(content, {i \in 1..Len(content) : content[i] # <<>>})
         IN  [k \in 1..Len(defs) |->
                 LET line == content[defs[k]]
                     name == <<line[1][2]>>
                 IN  IF line[1][1] = "def"
                     THEN CodeEntity(file_path, "function", name, line, None,
                                     Some(<<"def ">> \o name \o <<"()">>),
                                     defs[k], defs[k], imports, <<name>>)
                     ELSE CodeEntity(file_path, "class", name, line, None,
                                     Some(<<"class ">> \o name),
                                     defs[k], defs[k], imports, <<name>>)]
             \o (IF body # <<>> /\ body[1][1][1] = "doc"
                 THEN <<CodeEntity(file_path, "module", FileName(file_path),
                                   Take(TextOf(content), 500), Some(<<body[1][1][2]>>),
                                   Some(<<"module ">> \o Stem(file_path)), 0, 5,
                                   imports, <<>>)>>
                 ELSE <<>>)

\* the strategy EXTENSION_PARSERS names for the extension
Strategy(parser_method, file_path, content) ==
    CASE parser_method = "parse_python" -> parse_python(file_path, content)
      [] parser_method = "parse_rust" -> parse_rust(file_path, content)
      [] parser_method = "parse_typescript" -> parse_typescript(file_path, content)
      [] parser_method = "parse_javascript" -> parse_javascript(file_path, content)

\* a parse_file that returns nothing when the strategy raises
ASTCodeParser_parse_file_NoFallback(file_path, content, strategy_raises) ==
    IF Suffix(file_path) \notin DOMAIN EXTENSION_PARSERS
    THEN _fallback_chunk(file_path, content)
    ELSE IF strategy_raises THEN <<>>
    ELSE Strategy(EXTENSION_PARSERS[Suffix(file_path)], file_path, content)

\* ASTCodeParser.parse_file on the text of a file (lines 133-144), where
\* strategy_raises tells whether the strategy raises
ASTCodeParser_parse_file(file_path, content, strategy_raises) ==
    IF Suffix(file_path) \notin DOMAIN EXTENSION_PARSERS
    THEN _fallback_chunk(file_path, content)
    ELSE IF strategy_raises THEN _fallback_chunk(file_path, content)
    ELSE Strategy(EXTENSION_PARSERS[Suffix(file_path)], file_path, content)

(***************************************************************************)
(* Names, signatures and paths of the inputs of the models.                *)
(***************************************************************************)
NameF == <<"f">>
NameG == <<"g">>
NameH == <<"H">>
NameFG == <<"f", "g">>
PathA == <<"l", "/", "a", ".py">>
PathB == <<"L", "/", "b", ".py">>
SigOne == Some(<<"d", "e", "f", " ", "f", "(", ")">>)
SigTwo == Some(<<"d", "e", "f", " ", "f", "(", "x", ")">>)
DocD == Some(<<"d">>)

(***************************************************************************)
(* The cache model: get, put and clear on a SmartCache.                    *)
(***************************************************************************)
CacheGet ==
    \E key \in CacheKeys :
        /\ UNCHANGED <<graphVars, brainVars, call, watchVars>>
        /\ SetSmartCache(SmartCacheGet(SmartCache, key))
        /\ ret' = [op |-> "get", key |-> key,
                   value |-> SmartCacheGetValue(SmartCache, key)]

CachePut ==
    \E key \in CacheKeys, value \in CacheValues :
        /\ UNCHANGED <<graphVars, brainVars, call, watchVars>>
        /\ SetSmartCache(SmartCachePut(SmartCache, key, value))
        /\ ret' = [op |-> "put", key |-> key, value |-> value]

CacheClear ==
    /\ UNCHANGED <<graphVars, brainVars, call, watchVars>>
    /\ SetSmartCache(SmartCacheClear(SmartCache))
    /\ ret' = [op |-> "clear"]

CacheInit ==
    /\ SmartCacheInit
    /\ WatcherInit
    /\ CodeGraphInit
    /\ BrainReady
    /\ call = NoCall
    /\ ret = [op |-> "init"]

CacheNext == CacheGet \/ CachePut \/ CacheClear

SpecCache == CacheInit /\ [][CacheNext]_vars

(***************************************************************************)
(* C1: a put of a key that is not cached into a cache that holds max_size  *)
(* entries evicts exactly one entry, the key whose last successful get or  *)
(* put is the oldest among the cached keys; a get of a key that is not     *)
(* cached returns None, and a key only enters the cache by a put of it.    *)
(***************************************************************************)
\* the cached key that was accessed least recently, by the access history
OldestAccessed == Head(SelectSeq(recency, LAMBDA k : k \in DOMAIN cache))

C1_LruEviction ==
    [][ /\ ( /\ ret'.op = "put"
             /\ ret'.key \notin DOMAIN cache
             /\ Cardinality(DOMAIN cache) = max_size )
           => /\ (DOMAIN cache) \ (DOMAIN cache') = {OldestAccessed}
              /\ DOMAIN cache' = ((DOMAIN cache) \ {OldestAccessed}) \cup {ret'.key}
        /\ (ret'.op = "get" /\ ret'.key \notin DOMAIN cache)
           => (ret'.value = None /\ ret'.key \notin DOMAIN cache')
        /\ \A k \in (DOMAIN cache') \ (DOMAIN cache) :
               ret'.op = "put" /\ ret'.key = k
      ]_vars

\* a get misses on a key that an earlier put evicted, after a get had
\* promoted another key
C1_Witness ==
    /\ ret.op = "get"
    /\ ret.value = None
    /\ ret.key \in Range(recency)
    /\ Cardinality(DOMAIN cache) = max_size
    /\ Len(access_order) = max_size
    /\ \E i \in 1..Len(recency) : recency[i] = ret.key /\ i < Len(recency)

(***************************************************************************)
(* Bounds and inputs of the graph model.                                   *)
(***************************************************************************)
MaxGraphEdges == 4
MaxDepth == 3

GraphIdA == EntityId(PathA, 1)
GraphIdB == EntityId(PathA, 2)
GraphIdC == EntityId(PathB, 1)
GraphIds == {GraphIdA, GraphIdB, GraphIdC}

GraphEntity(file_path, start_line, name, imports, exports) ==
    CodeEntity(file_path, "function", name, <<>>, None, None,
               start_line, start_line, imports, exports)

GraphEntities ==
    {GraphEntity(PathA, 1, NameF, imps, <<NameF>>) : imps \in {<<NameG>>, <<NameF, NameG>>}}
    \cup {GraphEntity(PathA, 2, NameG, imps, <<NameG>>) : imps \in {<<>>, <<NameF>>, <<NameH>>}}
    \cup {GraphEntity(PathB, 1, NameH, imps, exps) :
             imps \in {<<>>, <<NameF, NameF>>}, exps \in {<<>>, <<NameH>>}}

GraphAdd ==
    \E entity \in GraphEntities :
        /\ SetGraph(add_entity(Graph, entity))
        /\ graph_edges(edges') <= MaxGraphEdges
        /\ SumLen(import_map', DOMAIN import_map') <= MaxGraphEdges
        /\ ret' = [op |-> "add_entity", id |-> entity.id]
        /\ UNCHANGED <<cacheVars, brainVars, call, watchVars>>

GraphGetRelated ==
    \E entity_id \in GraphIds, depth \in 0..MaxDepth :
        /\ ret' = [op |-> "get_related", id |-> entity_id, depth |-> depth,
                   value |-> get_related(edges, entity_id, depth)]
        /\ UNCHANGED <<cacheVars, graphVars, brainVars, call, watchVars>>

GraphInit ==
    /\ SmartCacheInit
    /\ WatcherInit
    /\ CodeGraphInit
    /\ BrainReady
    /\ call = NoCall
    /\ ret = [op |-> "init"]

GraphNext == GraphAdd \/ GraphGetRelated

SpecGraph == GraphInit /\ [][GraphNext]_vars

(***************************************************************************)
(* C5: get_related(id, depth=1) returns the direct dependencies of id, the *)
(* ids one forward edge away from id.                                      *)
(***************************************************************************)
C5_DepthOneIsDirectDeps ==
    (ret.op = "get_related" /\ ret.depth = 1)
        => Range(ret.value) = Range(Lookup(edges, ret.id))

(***************************************************************************)
(* C6: get_related(id, 0) returns the empty list, and for every depth the  *)
(* returned list holds no id twice, also when the graph has cycles,        *)
(* self-edges and duplicated edges.                                        *)
(***************************************************************************)
NoDuplicates(s) == \A i, j \in 1..Len(s) : s[i] = s[j] => i = j

C6_RelatedNoDuplicates ==
    ret.op = "get_related"
        => /\ ret.depth = 0 => ret.value = <<>>
           /\ NoDuplicates(ret.value)

\* a lookup of depth 2 or more from a node with a duplicated edge that lies
\* on a cycle
C6_Witness ==
    /\ ret.op = "get_related"
    /\ ret.depth >= 2
    /\ Len(ret.value) >= 2
    /\ ~NoDuplicates(Lookup(edges, ret.id))
    /\ \E other \in Range(Lookup(edges, ret.id)) :
           other # ret.id /\ ret.id \in Range(Lookup(edges, other))

(***************************************************************************)
(* Inputs of the evolution model: entity lists of up to MaxEvoLen          *)
(* entities.                                                               *)
(***************************************************************************)
MaxEvoLen == 2

EvoEntity(type, name, content, signature, start_line) ==
    CodeEntity(PathB, type, name, content, None, signature,
               start_line, start_line, <<>>, <<name>>)

EvoEntities ==
    { EvoEntity("function", NameF, <<"1">>, SigOne, 1),
      EvoEntity("function", NameF, <<" ", "1", "\n">>, SigOne, 1),
      EvoEntity("function", NameF, <<"2">>, SigTwo, 1),
      EvoEntity("function", NameF, <<"2">>, SigOne, 1),
      EvoEntity("class", NameF, <<"1">>, SigOne, 2),
      EvoEntity("struct", NameF, <<"3">>, SigOne, 3),
      EvoEntity("method", NameG, <<"1">>, SigOne, 4),
      EvoEntity("function", NameG, <<"2">>, SigOne, 4),
      EvoEntity("chunk", NameG, <<"1">>, None, 0),
      EvoEntity("module", NameG, <<"2">>, SigOne, 0) }

EvoLists == UNION {[1..n -> EvoEntities] : n \in 0..MaxEvoLen}

TrackEvolution ==
    /\ call.op = "_track_evolution"
    /\ memory_table' = memory_table \o
           _track_evolution(ready, call.file_path, call.old_entities, call.new_entities)
    /\ ret' = call
    /\ call' = NoCall
    /\ UNCHANGED watchVars
    /\ UNCHANGED <<cacheVars, graphVars, ready, fs, table, entity_cache, query_history>>

EvolutionInit ==
    /\ SmartCacheInit
    /\ WatcherInit
    /\ CodeGraphInit
    /\ BrainReady
    /\ \E old \in EvoLists, new \in EvoLists :
           call = [op |-> "_track_evolution", file_path |-> PathB,
                   old_entities |-> old, new_entities |-> new]
    /\ ret = [op |-> "init"]

EvolutionNext == TrackEvolution

SpecEvolution == EvolutionInit /\ [][EvolutionNext]_vars

(***************************************************************************)
(* C4: for entity lists whose function/method/class entities have distinct *)
(* names, _track_evolution stores exactly one record per name whose state  *)
(* changed: 'Modified' for a name in both lists iff the trimmed contents   *)
(* differ, 'Created' for a name only in the new list, 'Deleted' for a name *)
(* only in the old list, nothing for a name with equal trimmed content;    *)
(* entities of other kinds produce no record.                              *)
(***************************************************************************)
Tracked(entities) == {e \in Range(entities) : e.type \in TrackedTypes}

UniqueNames(entities) ==
    \A i, j \in 1..Len(entities) :
        ( /\ entities[i].type \in TrackedTypes
          /\ entities[j].type \in TrackedTypes
          /\ entities[i].name = entities[j].name ) => i = j

\* the changes the claim expects for a name, as a set of change words
ExpectedChanges(old_entities, new_entities, name) ==
    LET olds == {e \in Tracked(old_entities) : e.name = name}
        news == {e \in Tracked(new_entities) : e.name = name}
    IN  IF olds # {} /\ news # {}
        THEN IF \E o \in olds, n \in news : Strip(o.content) # Strip(n.content)
             THEN {"Modified"} ELSE {}
        ELSE IF news # {} THEN {"Created"}
        ELSE IF olds # {} THEN {"Deleted"}
        ELSE {}

C4_OneRecordPerChange ==
    [][ ( /\ call.op = "_track_evolution"
          /\ UniqueNames(call.old_entities)
          /\ UniqueNames(call.new_entities) )
        => LET stored == SubSeq(memory_table', Len(memory_table) + 1, Len(memory_table'))
               names == {e.name : e \in Range(call.old_entities) \cup Range(call.new_entities)}
           IN  /\ \A i \in 1..Len(stored) :
                     /\ stored[i].type = "evolution"
                     /\ stored[i].context = call.file_path
                     /\ stored[i].content.name \in names
               /\ \A name \in names :
                     LET of_name == {i \in 1..Len(stored) : stored[i].content.name = name}
                     IN  /\ {stored[i].content.change : i \in of_name}
                              = ExpectedChanges(call.old_entities, call.new_entities, name)
                         /\ Cardinality(of_name) <= 1
      ]_vars

\* one call stored a 'Modified' and a 'Deleted' record and skipped an entity
\* whose trimmed content was unchanged or whose kind is not tracked
C4_Witness ==
    /\ ret.op = "_track_evolution"
    /\ UniqueNames(ret.old_entities)
    /\ UniqueNames(ret.new_entities)
    /\ Len(ret.new_entities) = 2
    /\ \E i \in 1..Len(memory_table) : memory_table[i].content.change = "Modified"
    /\ \E i \in 1..Len(memory_table) : memory_table[i].content.change = "Deleted"
    /\ \E e \in Range(ret.new_entities) : e.type \notin TrackedTypes

(***************************************************************************)
(* The retrieval model: queries of a brain that has indexed two files.     *)
(***************************************************************************)
MaxDistance == 1
MaxLimit == 2

Distances == 0..MaxDistance
Limits == 1..MaxLimit

\* l/a.py: a function f and a documented class g that mentions ai
SrcQueryA ==
    SourceText(<<>>,
        << Decl("function", NameF, <<"1">>, None, SigOne, 1, 2, <<NameF>>),
           Decl("class", NameG, <<"A", "i">>, DocD, SigTwo, 3, 4, <<NameG>>) >>)

\* L/b.py: a function fg that imports g, and the documented module entity
SrcQueryB ==
    SourceText(<<NameG>>,
        << Decl("function", NameFG, <<"1">>, None, SigOne, 1, 2, <<NameFG>>),
           Decl("module", FileName(PathB), <<"u", "i">>, DocD, None, 0, 5, <<>>) >>)

QueryFiles == (PathA :> SrcQueryA) @@ (PathB :> SrcQueryB)

QueryTexts ==
    { <<"g", "e", "t", " ", "F", " ", "c", "o", "d", "e">>,
      <<"e", "x", "p", "l", "a", "i", "n", " ", "F">>,
      <<"f", "i", "x", " ", "F", " ", "u", "i">>,
      <<"g", "e", "t", " ", "c", "o", "d", "e", " ", "a", "i">>,
      <<"x">>,
      <<"w", "h", "y", " ", "G", " ", "w", "o", "r", "k">> }

EmptyBrain ==
    [table |-> <<>>, entity_cache |-> <<>>, memory_table |-> <<>>,
     nodes |-> <<>>, edges |-> <<>>, import_map |-> <<>>, reverse_deps |-> <<>>]

\* the brain after index_file of l/a.py and then of L/b.py
QueryBrain ==
    index_file(index_file(EmptyBrain, TRUE, QueryFiles, PathA), TRUE, QueryFiles, PathB)

QueryCall ==
    /\ call.op = "query"
    /\ query(call.text, call.n, call.vector_results)
    /\ UNCHANGED <<call, watchVars>>

QueryInit ==
    /\ SmartCacheInit
    /\ WatcherInit
    /\ ready = TRUE
    /\ fs = QueryFiles
    /\ table = QueryBrain.table
    /\ entity_cache = QueryBrain.entity_cache
    /\ memory_table = QueryBrain.memory_table
    /\ nodes = QueryBrain.nodes
    /\ edges = QueryBrain.edges
    /\ import_map = QueryBrain.import_map
    /\ reverse_deps = QueryBrain.reverse_deps
    /\ query_history = <<>>
    /\ \E text \in QueryTexts, n \in Limits :
         \E vector_results \in SearchOutcomes(QueryBrain.table, n * 2, Distances) :
           call = [op |-> "query", text |-> text, n |-> n,
                   vector_results |-> vector_results]
    /\ ret = [op |-> "init"]

QueryNext == QueryCall

SpecQuery == QueryInit /\ [][QueryNext]_vars

\* the query that ret reports searched the store and re-ranked the candidates
FreshQuery == ret.op = "query" /\ ~ret.not_ready /\ ~ret.hit

\* the entity of candidate i of the search that ret reports
CandidateEntity(i) == _reconstruct_entity(ret.vector_results[i].row)

\* the positions of candidate i in the returned list
PositionsOf(i) ==
    {p \in 1..Len(ret.value) : ret.value[p].entity.id = CandidateEntity(i).id}

\* candidate i is returned before candidate j with a strictly lower score,
\* whenever candidate j is returned
RanksStrictlyBefore(i, j) ==
    \A q \in PositionsOf(j) :
        \E p \in PositionsOf(i) :
            p < q /\ ret.value[p].score < ret.value[q].score

(***************************************************************************)
(* C7 as stated: of two candidates with equal base distance, the one whose *)
(* name contains a recognized entity token gets a strictly lower score and *)
(* ranks strictly before the one whose name matches no token, whatever the *)
(* other adjustments are.                                                  *)
(***************************************************************************)
C7_NameMatchAlwaysFirst ==
    FreshQuery =>
        \E intent \in {recognize(ret.text)} :
            \A i, j \in 1..Len(ret.vector_results) :
                ( /\ ret.vector_results[i].distance = ret.vector_results[j].distance
                  /\ NameMatches(intent, CandidateEntity(i))
                  /\ ~NameMatches(intent, CandidateEntity(j)) )
                => RanksStrictlyBefore(i, j)

(***************************************************************************)
(* C7 amended: of two candidates with equal base distance greater than     *)
(* zero that receive the same kind/documentation adjustment and the same   *)
(* concept adjustment, the one whose name contains a recognized entity     *)
(* token gets a strictly lower score and ranks strictly before the one     *)
(* whose name matches no token.                                            *)
(***************************************************************************)
C7_NameMatchFirstOtherwiseEqual ==
    FreshQuery =>
        \E intent \in {recognize(ret.text)} :
            \A i, j \in 1..Len(ret.vector_results) :
                ( /\ ret.vector_results[i].distance = ret.vector_results[j].distance
                  /\ ret.vector_results[i].distance > 0
                  /\ IntentFactor(intent, CandidateEntity(i))
                         = IntentFactor(intent, CandidateEntity(j))
                  /\ ConceptFactor(intent, CandidateEntity(i))
                         = ConceptFactor(intent, CandidateEntity(j))
                  /\ NameMatches(intent, CandidateEntity(i))
                  /\ ~NameMatches(intent, CandidateEntity(j)) )
                => RanksStrictlyBefore(i, j)

\* the store returned a candidate without a name match ahead of a candidate
\* with one, at the same positive distance and with the same other
\* adjustments, both adjusted by kind, and both are in the returned list
C7_Witness ==
    /\ FreshQuery
    /\ \E intent \in {recognize(ret.text)} :
         \E i, j \in 1..Len(ret.vector_results) :
            /\ j < i
            /\ ret.vector_results[i].distance = ret.vector_results[j].distance
            /\ ret.vector_results[i].distance > 0
            /\ IntentFactor(intent, CandidateEntity(i)) = 8
            /\ IntentFactor(intent, CandidateEntity(j)) = 8
            /\ ConceptFactor(intent, CandidateEntity(i))
                   = ConceptFactor(intent, CandidateEntity(j))
            /\ NameMatches(intent, CandidateEntity(i))
            /\ ~NameMatches(intent, CandidateEntity(j))
            /\ PositionsOf(i) # {}
            /\ PositionsOf(j) # {}

(***************************************************************************)
(* C8: a query with limit n >= 1 on a ready index returns a list sorted by *)
(* ascending score of at most n elements; every element is one of the at   *)
(* most 2*n candidates of the vector search, no candidate is returned      *)
(* twice, and returned candidates of equal score keep the store's order.   *)
(***************************************************************************)
C8_SortedLimitedStable ==
    (ret.op = "query" /\ ~ret.not_ready) =>
        /\ Len(ret.value) <= ret.n
        /\ \A p, q \in 1..Len(ret.value) :
               p < q => ret.value[p].score <= ret.value[q].score
        /\ Len(call.vector_results) <= 2 * ret.n
        /\ \E pos \in [1..Len(ret.value) -> 1..Len(call.vector_results)] :
               /\ \A p \in 1..Len(ret.value) :
                      ret.value[p].entity
                          = _reconstruct_entity(call.vector_results[pos[p]].row)
               /\ \A p, q \in 1..Len(ret.value) :
                      /\ p # q => pos[p] # pos[q]
                      /\ (p < q /\ ret.value[p].score = ret.value[q].score)
                             => pos[p] < pos[q]

\* the search returned 2*n candidates, n of them are returned, the two
\* returned ones have equal positive scores and keep the store's order, and
\* a candidate that the store returned ahead of both is cut off
C8_Witness ==
    /\ FreshQuery
    /\ ret.n = 2
    /\ Len(ret.vector_results) = 2 * ret.n
    /\ Len(ret.value) = ret.n
    /\ ret.value[1].score = ret.value[2].score
    /\ ret.value[1].score > 0
    /\ \E k, i, j \in 1..Len(ret.vector_results) :
          /\ k < i
          /\ i < j
          /\ PositionsOf(k) = {}
          /\ PositionsOf(i) = {1}
          /\ PositionsOf(j) = {2}

(***************************************************************************)
(* Inputs of the brain models.  A file set maps each path that is written  *)
(* to the contents written to it.                                          *)
(***************************************************************************)
MaxMemories == 2

\* a file without entities, a file with f, a file with a changed f
SrcNone == SourceText(<<>>, <<>>)
SrcOne ==
    SourceText(<<>>, << Decl("function", NameF, <<"1">>, None, SigOne, 1, 2, <<NameF>>) >>)
SrcTwo ==
    SourceText(<<>>, << Decl("function", NameF, <<"2">>, DocD, SigTwo, 1, 2, <<NameF>>) >>)

MainFiles == (PathA :> {SrcOne})
IndexFiles == (PathA :> {SrcNone, SrcOne, SrcTwo}) @@ (PathB :> {SrcOne})
DirL == <<"l">>
Root == <<>>
MainText == <<"g", "e", "t", " ", "F", " ", "c", "o", "d", "e">>
MainPatterns == {<<"a">>, <<"b">>}
MainDistances == {1}
\* n=3 of the query of brain_v2_ask
AskLimit == 3

\* what a tier answers with: a plain text, a text with a cloaked name
ReplyPlain == <<"o", "k">>
ReplyCloaked == <<"s", "e", "e", " ", "[", "f", "]">>
TierNames == {"Privacy-Gemini", "OpenRouter-GPT-OSS"}
AskConfigs ==
    [gemini_client : BOOLEAN, openai_client : BOOLEAN, privacy_mode : BOOLEAN,
     replies : [TierNames -> {None, Some(ReplyPlain), Some(ReplyCloaked)}]]

\* both clients, privacy mode on, the trusted tier fails
MainAskConfigs ==
    {[gemini_client |-> TRUE, openai_client |-> TRUE, privacy_mode |-> TRUE,
      replies |-> ("Privacy-Gemini" :> None)
                      @@ ("OpenRouter-GPT-OSS" :> Some(ReplyCloaked))]}

(***************************************************************************)
(* The actions: files are written and deleted while the operations of      *)
(* BrainV2 and of the exported API are called.                             *)
(***************************************************************************)
\* BrainV2._initialize runs to its end on a new database
Initialize ==
    /\ ~ready
    /\ ready' = TRUE
    /\ ret' = [op |-> "_initialize"]
    /\ UNCHANGED <<cacheVars, graphVars, fs, table, entity_cache, memory_table,
                   query_history, call, watchVars>>

\* the environment writes a file
WriteFile(files) ==
    \E path \in DOMAIN files :
        \E content \in files[path] :
            /\ fs' = DictSet(fs, path, content)
            /\ ret' = [op |-> "write", path |-> path]
            /\ UNCHANGED <<cacheVars, graphVars, ready, table, entity_cache,
                           memory_table, query_history, call, watchVars>>

IndexFile(files) ==
    \E path \in DOMAIN files :
        /\ SetBrain(index_file(Brain, ready, fs, path))
        /\ Len(memory_table') <= MaxMemories
        /\ ret' = [op |-> "index_file", path |-> path, not_ready |-> ~ready,
                   value |-> None,
                   store_calls |-> IndexStoreCalls(Brain, ready, fs, path)]
        /\ UNCHANGED <<cacheVars, ready, fs, query_history, call, watchVars>>

\* a file or a directory is deleted and the watcher, which runs once the
\* brain is ready, calls on_deleted
OnDeleted(files) ==
    \E path \in (DOMAIN files) \cup {DirL}, delete_raises \in BOOLEAN :
        /\ ready
        /\ path # DirL => path \in DOMAIN fs
        /\ fs' = [p \in {q \in DOMAIN fs : q # path /\ ~IsUnder(q, path)} |-> fs[p]]
        /\ SetBrain(on_deleted(Brain, path = DirL, path, delete_raises))
        /\ ret' = [op |-> "on_deleted", path |-> path, is_directory |-> (path = DirL),
                   delete_raises |-> delete_raises]
        /\ UNCHANGED <<cacheVars, ready, query_history, call, watchVars>>

Query(n) ==
    \E vector_results \in FullOutcomes(table, n * 2, MainDistances) :
        /\ query(MainText, n, vector_results)
        /\ UNCHANGED <<call, watchVars>>

Remember ==
    /\ Len(memory_table) < MaxMemories
    /\ memory_table' = memory_table \o remember(ready, <<"n">>, "insight", <<>>)
    /\ ret' = [op |-> "remember", not_ready |-> ~ready,
               message |-> IF ready THEN "Memory stored" ELSE "Brain not ready",
               store_calls |-> IF ready THEN 1 ELSE 0]
    /\ UNCHANGED <<cacheVars, graphVars, ready, fs, table, entity_cache,
                   query_history, call, watchVars>>

Recall ==
    \E results \in FullOutcomes(memory_table, 1, MainDistances) :
        /\ ret' = [op |-> "recall", not_ready |-> ~ready,
                   value |-> IF ready THEN recall(results) ELSE <<>>,
                   store_calls |-> IF ready THEN 1 ELSE 0]
        /\ UNCHANGED <<cacheVars, graphVars, brainVars, call, watchVars>>

GetStats ==
    /\ ret' = [op |-> "get_stats", not_ready |-> ~ready,
               stats |-> IF ready THEN get_stats ELSE [ready |-> FALSE],
               store_calls |-> 0]
    /\ UNCHANGED <<cacheVars, graphVars, brainVars, call, watchVars>>

\* brain_v2_query; the returned dicts are kept as the results of query
BrainV2Query(limit) ==
    \E vector_results \in FullOutcomes(table, limit * 2, MainDistances) :
        /\ IF ~ready
           THEN /\ ret' = [op |-> "brain_v2_query", not_ready |-> TRUE,
                           value |-> <<[error |-> "Brain initializing"]>>,
                           store_calls |-> 0]
                /\ UNCHANGED <<cacheVars, graphVars, brainVars>>
           ELSE QueryAs("brain_v2_query", MainText, limit, vector_results)
        /\ UNCHANGED <<call, watchVars>>

\* brain_v2_ask: the context hits of query(question, n=3), the memories of
\* recall(question, limit=2), the prompt and the tiers; config tells which
\* clients _initialize created, what PRIVACY_MODE is and how the tiers reply
BrainV2Ask(configs) ==
    \E vector_results \in FullOutcomes(table, AskLimit * 2, MainDistances),
       results \in FullOutcomes(memory_table, 2, MainDistances),
       config \in configs :
        /\ IF ~ready
           THEN /\ ret' = [op |-> "brain_v2_ask", not_ready |-> TRUE,
                           message |-> "Brain initializing...", store_calls |-> 0]
                /\ UNCHANGED <<cacheVars, graphVars, brainVars>>
           ELSE \E intent \in {recognize(MainText)} :
                LET context_hits == QueryResults(MainText, AskLimit, vector_results)
                    prompt == Prompt(intent.intent_type, context_hits,
                                     recall(results), MainText)
                IN  QueryWith("brain_v2_ask", MainText, AskLimit, vector_results,
                        [prompt |-> prompt, config |-> config,
                         sensitive_terms |-> SensitiveTerms(nodes),
                         answer |-> AskOracle(prompt, config.privacy_mode, nodes,
                                              config.gemini_client,
                                              config.openai_client,
                                              config.replies)])
        /\ UNCHANGED <<call, watchVars>>

BrainV2IndexDir ==
    \E dir \in {Root} :
        \E order \in WalkOrders(WalkFiles(fs, dir)) :
            /\ IF ~ready
               THEN /\ ret' = [op |-> "brain_v2_index_dir", dir |-> dir,
                               not_ready |-> TRUE, message |-> "Brain initializing",
                               store_calls |-> 0]
                    /\ UNCHANGED <<graphVars, table, entity_cache, memory_table>>
               ELSE /\ SetBrain(IndexAll(Brain, ready, fs, order, 1))
                    /\ Len(memory_table') <= MaxMemories
                    /\ ret' = [op |-> "brain_v2_index_dir", dir |-> dir,
                               not_ready |-> FALSE, count |-> Len(order),
                               store_calls |-> Len(order)]
            /\ UNCHANGED <<cacheVars, ready, fs, query_history, call, watchVars>>

BrainV2Purge ==
    \E pattern \in MainPatterns :
        /\ IF ~ready
           THEN /\ ret' = [op |-> "brain_v2_purge", pattern |-> pattern,
                           not_ready |-> TRUE, message |-> "Brain initializing",
                           store_calls |-> 0]
                /\ UNCHANGED <<cacheVars, graphVars, table, entity_cache, memory_table>>
           ELSE /\ SetBrain(purge(Brain, pattern))
                /\ SetSmartCache(PurgeSmartCache(SmartCache, table, pattern))
                /\ ret' = [op |-> "brain_v2_purge", pattern |-> pattern,
                           not_ready |-> FALSE,
                           count |-> PurgeCount(table, pattern),
                           store_calls |-> IF PurgeCount(table, pattern) = 0
                                           THEN 1 ELSE 2]
        /\ UNCHANGED <<ready, fs, query_history, call, watchVars>>

BrainV2Graph ==
    \E entity_name \in {NameF, NameH} :
        /\ ret' = [op |-> "brain_v2_graph", entity_name |-> entity_name,
                   not_ready |-> ~ready,
                   graph |-> IF ready THEN brain_v2_graph(Graph, entity_name)
                             ELSE [error |-> "Brain initializing"],
                   store_calls |-> 0]
        /\ UNCHANGED <<cacheVars, graphVars, brainVars, call, watchVars>>

(***************************************************************************)
(* The brain model: every operation, from construction on, with one file.  *)
(***************************************************************************)
\* BrainV2.__init__
MainInit ==
    /\ SmartCacheInit
    /\ WatcherInit
    /\ CodeGraphInit
    /\ ready = FALSE
    /\ fs = <<>>
    /\ table = <<>>
    /\ entity_cache = <<>>
    /\ memory_table = <<>>
    /\ query_history = <<>>
    /\ call = NoCall
    /\ ret = [op |-> "init"]

Next ==
    \/ Initialize
    \/ WriteFile(MainFiles)
    \/ IndexFile(MainFiles)
    \/ OnDeleted(MainFiles)
    \/ Query(AskLimit)
    \/ Remember
    \/ Recall
    \/ GetStats
    \/ BrainV2Query(AskLimit)
    \/ BrainV2Ask(MainAskConfigs)
    \/ BrainV2IndexDir
    \/ BrainV2Purge
    \/ BrainV2Graph

Spec == MainInit /\ [][Next]_vars

(***************************************************************************)
(* The index model: a ready brain whose two files are rewritten, indexed,  *)
(* deleted, queried and purged.                                            *)
(***************************************************************************)
IndexInit ==
    /\ SmartCacheInit
    /\ WatcherInit
    /\ CodeGraphInit
    /\ BrainReady
    /\ call = NoCall
    /\ ret = [op |-> "init"]

IndexNext ==
    \/ WriteFile(IndexFiles)
    \/ IndexFile(IndexFiles)
    \/ OnDeleted(IndexFiles)
    \/ Query(1)
    \/ BrainV2Purge

SpecIndex == IndexInit /\ [][IndexNext]_vars

(***************************************************************************)
(* C2: a change of the rows of the index by index_file or on_deleted       *)
(* clears the result cache, so that a query issued after the change never  *)
(* returns a list that was cached before it: every entity of a list that   *)
(* query returns from the result cache is a row of the index.              *)
(***************************************************************************)
C2_NoStaleResultAfterReindex ==
    [][ (ret'.op = "query" /\ ret'.hit)
        => \A i \in 1..Len(ret'.value) :
              \E j \in 1..Len(table') :
                  _reconstruct_entity(table'[j]) = ret'.value[i].entity ]_vars

(***************************************************************************)
(* C3: index_file called twice in a row on the same unchanged file leaves  *)
(* the same entities of the file in the index and in the entity cache both *)
(* times, and the second call stores no evolution record; also for a file  *)
(* that yields no entities after an earlier pass that yielded some.        *)
(***************************************************************************)
RowsOf(tbl, path) == SelectSeq(tbl, LAMBDA row : row.file_path = path)

C3_SecondIndexIsSilent ==
    [][ ( /\ ret.op = "index_file"
          /\ ret'.op = "index_file"
          /\ ~ret.not_ready
          /\ ret'.path = ret.path
          /\ fs' = fs )
        => /\ memory_table' = memory_table
           /\ RowsOf(table', ret.path) = RowsOf(table, ret.path)
           /\ Lookup(entity_cache', ret.path) = Lookup(entity_cache, ret.path) ]_vars

(***************************************************************************)
(* C9: brain_v2_purge(pattern) removes every row whose file path contains  *)
(* the pattern case-insensitively and every entity-cache key that contains *)
(* it case-insensitively, and leaves the other rows and keys untouched;    *)
(* also when no row matches but an entity-cache key does.                  *)
(***************************************************************************)
C9_PurgeRemovesMatching ==
    [][ (ret'.op = "brain_v2_purge" /\ ~ret'.not_ready)
        => /\ table' = SelectSeq(table,
                  LAMBDA row : ~Contains(Lower(row.file_path), Lower(ret'.pattern)))
           /\ \A k \in DOMAIN entity_cache :
                  k \in DOMAIN entity_cache' <=> ~Contains(Lower(k), Lower(ret'.pattern))
           /\ \A k \in DOMAIN entity_cache' :
                  k \in DOMAIN entity_cache /\ entity_cache'[k] = entity_cache[k] ]_vars

(***************************************************************************)
(* C10: while ready is false, each of query, recall, remember, index_file, *)
(* get_stats, brain_v2_query, brain_v2_ask, brain_v2_index_dir,            *)
(* brain_v2_purge and brain_v2_graph returns its not-ready sentinel, makes *)
(* no call on the vector store and leaves the entity cache, the graph, the *)
(* result cache, the query history and both tables as they are.            *)
(***************************************************************************)
NotReadyOps ==
    {"query", "recall", "remember", "index_file", "get_stats", "brain_v2_query",
     "brain_v2_ask", "brain_v2_index_dir", "brain_v2_purge", "brain_v2_graph"}

\* the operation that ret reports returned its not-ready sentinel
ReturnedSentinel(r) ==
    CASE r.op \in {"query", "recall"} -> r.value = <<>>
      [] r.op = "index_file" -> r.value = None
      [] r.op = "remember" -> r.message = "Brain not ready"
      [] r.op = "get_stats" -> r.stats = [ready |-> FALSE]
      [] r.op = "brain_v2_query" -> r.value = <<[error |-> "Brain initializing"]>>
      [] r.op = "brain_v2_ask" -> r.message = "Brain initializing..."
      [] r.op \in {"brain_v2_index_dir", "brain_v2_purge"} ->
             r.message = "Brain initializing"
      [] r.op = "brain_v2_graph" -> r.graph = [error |-> "Brain initializing"]

C10_NotReadySentinel ==
    [][ (~ready /\ ret'.op \in NotReadyOps)
        => /\ ret'.not_ready
           /\ ReturnedSentinel(ret')
           /\ ret'.store_calls = 0
           /\ UNCHANGED <<entity_cache, graphVars, cache, access_order,
                          query_history, table, memory_table>> ]_vars

\* index_file of a file that is on disk returned while the brain was not
\* ready, and nothing is indexed
C10_Witness ==
    /\ ~ready
    /\ ret.op = "index_file"
    /\ ret.not_ready
    /\ ret.path \in DOMAIN fs
    /\ Suffix(ret.path) \in IndexedSuffixes
    /\ nodes = <<>>
    /\ table = <<>>
    /\ entity_cache = <<>>

(***************************************************************************)
(* The watcher model: notifications of modified files and directories      *)
(* arrive at a running watcher while the files exist.                      *)
(***************************************************************************)
MaxTime == 9

\* the clock readings: the clock is far more than one interval past 1970
Times == debounce_seconds..MaxTime

\* a file importing the module a
SrcImportsA ==
    SourceText(<< <<"a">> >>,
               << Decl("function", NameG, <<"3">>, None, SigOne, 1, 2, <<NameG>>) >>)

PathTmp == <<"t", "m", "p", "/", "c", ".py">>
PathDoc == <<"l", "/", "r", ".md">>

WatchFiles ==
    (PathA :> SrcOne) @@ (PathB :> SrcImportsA) @@ (PathTmp :> SrcOne)
        @@ (PathDoc :> SrcNone)

\* the watchdog thread delivers one notification, read at time now
OnModified ==
    \E path \in (DOMAIN fs) \cup {DirL}, now \in Times :
        LET is_directory == (path = DirL)
            b1 == index_file(Brain, ready, fs, path)
        IN  \E order \in WalkOrders(Importers(b1.entity_cache, path)) :
            \E w \in {on_modified(last_event, Brain, ready, fs, is_directory,
                                  now, path, order)} :
                /\ last_event' = w.last_event
                /\ accepted' = IF w.passed THEN Append(accepted, now) ELSE accepted
                /\ SetBrain(w.b)
                /\ ret' = [op |-> "on_modified", path |-> path, now |-> now,
                           is_directory |-> is_directory, passed |-> w.passed,
                           indexed |-> w.indexed]
                /\ UNCHANGED <<cacheVars, ready, fs, query_history, call>>

\* the watcher is started once the brain is ready (brain_v2.py 740-747)
WatchInit ==
    /\ SmartCacheInit
    /\ WatcherInit
    /\ CodeGraphInit
    /\ ready = TRUE
    /\ fs = WatchFiles
    /\ table = <<>>
    /\ entity_cache = <<>>
    /\ memory_table = <<>>
    /\ query_history = <<>>
    /\ call = NoCall
    /\ ret = [op |-> "init"]

WatchNext == OnModified

SpecWatcher == WatchInit /\ [][WatchNext]_vars

\* the time of the last notification let through, if there is one
LastAccepted == IF accepted = <<>> THEN None ELSE Some(accepted[Len(accepted)])

\* C11: a notification for a file is dropped exactly when less than the
\* debounce interval has passed since the last notification the watcher let
\* through, for whatever file, and is let through otherwise; any two
\* notifications let through are at least the interval apart, and the
\* watcher calls index_file only for a notification it let through
C11_DebouncePerWatcher ==
    /\ [][ (ret'.op = "on_modified" /\ ~ret'.is_directory) =>
             /\ ~ret'.passed <=>
                  (LastAccepted # None /\ ret'.now - LastAccepted[1] < debounce_seconds)
             /\ accepted' = IF ret'.passed THEN Append(accepted, ret'.now) ELSE accepted
             /\ (~ret'.passed => /\ ret'.indexed = <<>>
                                 /\ table' = table
                                 /\ entity_cache' = entity_cache) ]_vars
    /\ [](\A i, j \in 1..Len(accepted) :
            i < j => accepted[j] - accepted[i] >= debounce_seconds)

\* a notification read exactly one interval after the last one let through
\* is let through: its file is indexed together with the file importing it
C11_Witness ==
    /\ ret.op = "on_modified"
    /\ ret.passed
    /\ Len(accepted) = 2
    /\ ret.indexed = <<PathA, PathB>>
    /\ accepted[2] - accepted[1] = debounce_seconds

(***************************************************************************)
(* The deletion model and the claims on on_deleted.                         *)
(***************************************************************************)
\* two files are written, indexed and deleted
DeleteFiles == (PathA :> {SrcOne}) @@ (PathB :> {SrcOne})

DeleteNext ==
    \/ WriteFile(DeleteFiles)
    \/ IndexFile(DeleteFiles)
    \/ OnDeleted(DeleteFiles)

SpecDelete == IndexInit /\ [][DeleteNext]_vars

\* on_deleted has just handled the deletion of a code file
DeletedCodeFile(r) ==
    /\ r.op = "on_deleted"
    /\ ~r.is_directory
    /\ Suffix(r.path) \in {".py", ".rs", ".ts", ".tsx", ".js"}

\* the rows of tbl that are not of the file path
RowsNotOf(tbl, path) == SelectSeq(tbl, LAMBDA row : row.file_path # path)

\* C12: after the deletion of a code file P is handled and the store's
\* delete works, no row of the table has file path P and P is no key of the
\* entity cache, while the rows and the cache entries of every other path
\* are what they were
C12_DeletionRemovesOnlyThePath ==
    [][ (DeletedCodeFile(ret') /\ ~ret'.delete_raises) =>
          /\ \A i \in 1..Len(table') : table'[i].file_path # ret'.path
          /\ ret'.path \notin DOMAIN entity_cache'
          /\ RowsNotOf(table', ret'.path) = RowsNotOf(table, ret'.path)
          /\ \A p \in (DOMAIN entity_cache) \ {ret'.path} :
                p \in DOMAIN entity_cache' /\ entity_cache'[p] = entity_cache[p]
          /\ \A p \in DOMAIN entity_cache' : p \in DOMAIN entity_cache ]_vars

\* the deletion of l/a.py, which had been indexed, was handled while the
\* rows and the cache entry of L/b.py stayed
C12_Witness ==
    /\ DeletedCodeFile(ret)
    /\ ~ret.delete_raises
    /\ ret.path = PathA
    /\ \E i \in 1..Len(nodes) : nodes[i].file_path = PathA
    /\ PathA \notin DOMAIN entity_cache
    /\ PathB \in DOMAIN entity_cache
    /\ \E i \in 1..Len(table) : table[i].file_path = PathB

\* C13: when the store's delete raises while the deletion of a code file P
\* is handled, the handler returns normally and P is no key of the entity
\* cache afterwards
C13_FailedDeleteStillDropsCacheKey ==
    [][ (DeletedCodeFile(ret') /\ ret'.delete_raises) =>
          ret'.path \notin DOMAIN entity_cache' ]_vars

(***************************************************************************)
(* The oracle model: brain_v2_ask on a brain that has indexed l/a.py, with *)
(* every combination of clients, privacy mode and replies of the tiers.    *)
(***************************************************************************)
AskFiles == (PathA :> SrcOne)

AskBrain == index_file(EmptyBrain, TRUE, AskFiles, PathA)

AskInit ==
    /\ SmartCacheInit
    /\ WatcherInit
    /\ ready = TRUE
    /\ fs = AskFiles
    /\ table = AskBrain.table
    /\ entity_cache = AskBrain.entity_cache
    /\ memory_table = AskBrain.memory_table
    /\ nodes = AskBrain.nodes
    /\ edges = AskBrain.edges
    /\ import_map = AskBrain.import_map
    /\ reverse_deps = AskBrain.reverse_deps
    /\ query_history = <<>>
    /\ call = NoCall
    /\ ret = [op |-> "init"]

AskNext == BrainV2Ask(AskConfigs) \/ Remember

SpecAsk == AskInit /\ [][AskNext]_vars

\* brain_v2_ask has returned from a ready brain
AskReturned == ret.op = "brain_v2_ask" /\ ~ret.not_ready

\* the names of the tiers the configuration lists, trusted tier first
ListedTiers(config) ==
    SelectSeq(<<"Privacy-Gemini", "OpenRouter-GPT-OSS">>,
              LAMBDA name : IF name = "Privacy-Gemini" THEN config.gemini_client
                            ELSE config.openai_client)

\* the positions of the listed tiers whose call does not raise
Answering(config) ==
    {k \in 1..Len(ListedTiers(config)) : config.replies[ListedTiers(config)[k]] # None}

\* C14: brain_v2_ask calls the tiers in list order, each at most once and
\* a tier only after the one before it raised; the answer is that of the
\* first tier that does not raise, after which no tier is called; when
\* every tier raises or no tier is listed, the failure message with the
\* last error is returned
C14_TiersInOrderUntilSuccess ==
    AskReturned =>
        LET names == ListedTiers(ret.config)
            llm_calls == ret.answer.llm_calls
            replies == ret.config.replies
        IN  /\ Len(llm_calls) <= Len(names)
            /\ \A k \in 1..Len(llm_calls) : llm_calls[k].name = names[k]
            /\ \A k \in 1..(Len(llm_calls) - 1) : replies[names[k]] = None
            /\ IF Answering(ret.config) # {}
               THEN LET first == CHOOSE k \in Answering(ret.config) :
                                     \A m \in Answering(ret.config) : k <= m
                        reply == replies[names[first]][1]
                    IN  /\ Len(llm_calls) = first
                        /\ ~ret.answer.collapsed
                        /\ ret.answer.text
                               \in {reply, desanitize(ret.sensitive_terms, reply)}
               ELSE /\ Len(llm_calls) = Len(names)
                    /\ ret.answer.collapsed
                    /\ ret.answer.last_error =
                           IF names = <<>> THEN None ELSE Some(names[Len(names)])

\* the trusted tier raised and the second tier answered
C14_Witness ==
    /\ AskReturned
    /\ Len(ret.answer.llm_calls) = 2
    /\ ret.config.replies["Privacy-Gemini"] = None
    /\ ~ret.answer.collapsed
    /\ ret.answer.text = ReplyPlain

\* C15: with privacy mode on, a tier other than Privacy-Gemini is sent the
\* sanitized prompt and Privacy-Gemini the prompt as it is; the reply of a
\* tier is desanitized exactly when the prompt sent to it was sanitized;
\* with privacy mode off every tier is sent the prompt as it is
C15_SelectiveCloaking ==
    AskReturned =>
        LET llm_calls == ret.answer.llm_calls
            Sanitized(name) == ret.config.privacy_mode /\ name # "Privacy-Gemini"
        IN  /\ \A k \in 1..Len(llm_calls) :
                   llm_calls[k].prompt =
                       IF Sanitized(llm_calls[k].name)
                       THEN sanitize(ret.sensitive_terms, ret.prompt)
                       ELSE ret.prompt
            /\ ~ret.answer.collapsed =>
                   LET name == llm_calls[Len(llm_calls)].name
                       reply == ret.config.replies[name][1]
                   IN  ret.answer.text =
                           IF Sanitized(name)
                           THEN desanitize(ret.sensitive_terms, reply)
                           ELSE reply

\* with privacy mode on, the trusted tier got the prompt as it is and
\* raised, the second tier got a different, sanitized prompt and its reply
\* came back changed by desanitize
C15_Witness ==
    /\ AskReturned
    /\ ret.config.privacy_mode
    /\ Len(ret.answer.llm_calls) = 2
    /\ ret.answer.llm_calls[1].prompt = ret.prompt
    /\ ret.answer.llm_calls[2].prompt # ret.prompt
    /\ ~ret.answer.collapsed
    /\ ret.answer.text # ret.config.replies["OpenRouter-GPT-OSS"][1]

(***************************************************************************)
(* The gatekeeper model: gatekeeper_evaluate on a brain that has indexed   *)
(* l/a.py, with and without a client and with every kind of reply.         *)
(***************************************************************************)
GateCommands == {<<"l", "s">>, <<"r", "m">>}

GateData ==
    {[kind |-> "invalid", decision |-> None, safe_command |-> None, reason |-> None],
     [kind |-> "array", decision |-> None, safe_command |-> None, reason |-> None]}
    \cup [kind : {"object"},
          decision : {None, Some(Allow), Some(<<"D", "E", "N", "Y">>), Some(Modify),
                      Some(<<"n", "o">>)},
          safe_command : {None, Some(<<>>), Some(<<"l">>)},
          reason : {None, Some(<<"r">>)}]

GateReplies == {None} \cup {Some(data) : data \in GateData}

\* gatekeeper_evaluate(command): the context query of line 1477 runs outside
\* the try block, so a search of the vector store that raises ends the call
GatekeeperEvaluate ==
    \E command \in GateCommands,
       vector_results \in FullOutcomes(table, AskLimit * 2, MainDistances),
       openai_client \in BOOLEAN, search_raises \in BOOLEAN, reply \in GateReplies :
        /\ IF ~ready \/ ~openai_client
           THEN /\ ret' = [op |-> "gatekeeper_evaluate", text |-> command,
                           not_ready |-> TRUE, raised |-> FALSE,
                           result |-> GatekeeperNotReady(command),
                           reply |-> None, store_calls |-> 0]
                /\ UNCHANGED <<cacheVars, graphVars, brainVars>>
           ELSE IF search_raises /\ SmartCacheGetValue(SmartCache, <<command, AskLimit>>)
                                        \in {None, Some(<<>>)}
           THEN /\ ret' = [op |-> "gatekeeper_evaluate", text |-> command,
                           not_ready |-> FALSE, raised |-> TRUE,
                           result |-> [decision |-> <<>>, reason |-> <<>>,
                                       safe_command |-> <<>>],
                           reply |-> None, store_calls |-> 1]
                /\ SetSmartCache(SmartCacheGet(SmartCache, <<command, AskLimit>>))
                /\ UNCHANGED <<graphVars, brainVars>>
           ELSE QueryWith("gatekeeper_evaluate", command, AskLimit, vector_results,
                    [raised |-> FALSE, reply |-> reply,
                     result |-> GatekeeperReply(command, reply)])
        /\ UNCHANGED <<call, watchVars>>

GateNext == GatekeeperEvaluate

SpecGatekeeper == AskInit /\ [][GateNext]_vars

\* C16: gatekeeper_evaluate never raises and returns a decision among
\* allow, deny and modify; the decision is allow when the brain is not
\* ready, when the call of the model fails, when the reply is no JSON or no
\* JSON object and when the decision given is none of the three; on the
\* not-ready and error paths safe_command is the command and reason is not
\* empty
C16_GatekeeperAlwaysDecides ==
    ret.op = "gatekeeper_evaluate" =>
        /\ ~ret.raised
        /\ ret.result.decision \in {Allow, Deny, Modify}
        /\ (\/ ret.not_ready
            \/ ret.reply = None
            \/ ret.reply[1].kind # "object"
            \/ ret.reply[1].decision = None
            \/ Lower(ret.reply[1].decision[1]) \notin {Allow, Deny, Modify})
               => ret.result.decision = Allow
        /\ (ret.not_ready \/ ret.reply = None \/ ret.reply[1].kind # "object")
               => /\ ret.result.safe_command = ret.text
                  /\ ret.result.reason # <<>>

(***************************************************************************)
(* The parser model: parse_file on texts of a few lines in every language  *)
(* and on texts longer than one chunk.                                     *)
(***************************************************************************)
MaxLines == 2

LineShapes ==
    { <<>>,
      << <<"fn", "a">>, <<"{", "">>, <<"}", "">> >>,
      << <<"fn", "a">>, <<"{", "">> >>,
      << <<"}", "">> >>,
      << <<"fn", "a">>, <<"{", "">>, <<"}", "">>, <<"fn", "b">>, <<"{", "">>, <<"}", "">> >>,
      << <<"struct", "S">> >>,
      << <<"use", "m">> >>,
      << <<"function", "f">> >>,
      << <<"arrow", "g">>, <<"class", "C">> >>,
      << <<"import", "m">> >>,
      << <<"def", "f">> >>,
      << <<"class", "C">> >>,
      << <<"doc", "d">> >>,
      << <<"x", "">> >> }

\* texts longer than one chunk: 51 lines of text, 50 blank lines and a
\* line of text, 101 lines with a function on the second
LongTexts ==
    { Repeat(<< <<"x", "">> >>, ChunkSize + 1),
      Repeat(<<>>, ChunkSize) \o << << <<"x", "">> >> >>,
      << << <<"x", "">> >>, << <<"fn", "a">>, <<"{", "">> >> >>
          \o Repeat(<< <<"x", "">> >>, 2 * ChunkSize - 2) \o << << <<"}", "">> >> >> }

ParseTexts == (UNION {[1..n -> LineShapes] : n \in 0..MaxLines}) \cup LongTexts

ParsePaths ==
    { <<"m", ".py">>, <<"m", ".rs">>, <<"m", ".ts">>, <<"m", ".tsx">>, <<"m", ".js">>,
      <<"m", ".md">> }

ParseFileCall ==
    /\ call.op = "parse_file"
    /\ ret' = [op |-> "parse_file", path |-> call.file_path, content |-> call.content,
               strategy_raises |-> call.strategy_raises, raised |-> FALSE,
               value |-> ASTCodeParser_parse_file(call.file_path, call.content,
                                                  call.strategy_raises)]
    /\ call' = NoCall
    /\ UNCHANGED <<cacheVars, graphVars, brainVars, watchVars>>

ParseInit ==
    /\ SmartCacheInit
    /\ WatcherInit
    /\ CodeGraphInit
    /\ BrainReady
    /\ \E file_path \in ParsePaths, content \in ParseTexts, strategy_raises \in BOOLEAN :
           call = [op |-> "parse_file", file_path |-> file_path, content |-> content,
                   strategy_raises |-> strategy_raises]
    /\ ret = [op |-> "init"]

ParseNext == ParseFileCall

SpecParse == ParseInit /\ [][ParseNext]_vars

\* C17: every entity parse_file returns has start_line <= end_line, and no
\* two entities of one call have the same id, also when two declarations
\* start on the same line
C17_EntitiesWellFormed ==
    ret.op = "parse_file" =>
        /\ \A i \in 1..Len(ret.value) : ret.value[i].start_line <= ret.value[i].end_line
        /\ \A i, j \in 1..Len(ret.value) :
               ret.value[i].id = ret.value[j].id => i = j

\* the language strategy of the call failed
StrategyFailed(r) ==
    /\ Suffix(r.path) \in DOMAIN EXTENSION_PARSERS
    /\ \/ r.strategy_raises
       \/ Suffix(r.path) = ".py" /\ ~PythonValid(r.content)

\* the first lines (counted from 0) of the blocks of 50 lines of content
\* that are not blank
Blocks(content) ==
    {i \in 0..(Len(content) - 1) :
        /\ i % ChunkSize = 0
        /\ \E k \in (i + 1)..(i + ChunkSize) : k <= Len(content) /\ content[k] # <<>>}

\* entities is the line-chunking of content: one chunk for every block
\* that is not blank, in order, holding the lines of the block
IsLineChunking(entities, file_path, content) ==
    /\ Len(entities) = Cardinality(Blocks(content))
    /\ \A n \in 1..Len(entities) :
          LET e == entities[n]
              last == IF e.start_line + ChunkSize < Len(content)
                      THEN e.start_line + ChunkSize ELSE Len(content)
          IN  /\ e.type = "chunk"
              /\ e.start_line \in Blocks(content)
              /\ e.id = <<file_path, e.start_line>>
              /\ e.end_line = last
              /\ e.content = TextOf(SubSeq(content, e.start_line + 1, last))
              /\ \A m \in 1..(n - 1) : entities[m].start_line < e.start_line

\* C20: parse_file does not raise, and when the language strategy of the
\* file fails what parse_file returns is the line-chunking of the file
C20_FallbackOnFailure ==
    ret.op = "parse_file" =>
        /\ ~ret.raised
        /\ StrategyFailed(ret) => IsLineChunking(ret.value, ret.path, ret.content)

\* the strategy of a Rust file of 51 lines raised and two chunks came back
C20_Witness ==
    /\ ret.op = "parse_file"
    /\ ret.strategy_raises
    /\ Suffix(ret.path) = ".rs"
    /\ Len(ret.content) = ChunkSize + 1
    /\ Len(ret.value) = 2
    /\ ret.value[2].start_line = ChunkSize

\* ---------------------------------------------------------------------
\* The intent recognizer on its own: one call of recognize on a query
\* ---------------------------------------------------------------------

\* longest query of RecTexts, in words
MaxWords == 2

\* the words of the queries: cues of the five intents, keywords of the
\* three contexts and an identifier
RecWords ==
    {<<"f", "i", "n", "d">>,
     <<"f", "u", "n", "c", "t", "i", "o", "n">>,
     <<"e", "x", "p", "l", "a", "i", "n">>,
     <<"e", "r", "r", "o", "r">>,
     <<"f", "i", "x">>,
     <<"b", "e", "t", "t", "e", "r">>,
     <<"d", "e", "s", "i", "g", "n">>,
     <<"s", "y", "s", "t", "e", "m">>,
     <<"h", "o", "w">>,
     <<"F", "a", "s", "t">>,
     <<"p", "a", "r", "s", "e", "C", "o", "n", "f", "i", "g">>}

\* the query "find the parseConfig function"
FindParseConfig == Join(<<<<"f", "i", "n", "d">>, <<"t", "h", "e">>, <<"p", "a", "r", "s", "e", "C", "o", "n", "f", "i", "g">>, <<"f", "u", "n", "c", "t", "i", "o", "n">>>>, " ")

RecTexts ==
    {Join(ws, " ") : ws \in UNION {[1..n -> RecWords] : n \in 0..MaxWords}}
        \cup {FindParseConfig}

\* recognize(text) is called and returns
RecognizeCall ==
    /\ call.op = "recognize"
    /\ ret' = [op |-> "recognize", text |-> call.text, result |-> recognize(call.text)]
    /\ call' = NoCall
    /\ UNCHANGED <<cacheVars, graphVars, brainVars, watchVars>>

RecognizeInit ==
    /\ SmartCacheInit
    /\ WatcherInit
    /\ CodeGraphInit
    /\ BrainReady
    /\ \E text \in RecTexts : call = [op |-> "recognize", text |-> text]
    /\ ret = [op |-> "init"]

RecognizeNext == RecognizeCall

SpecRecognize == RecognizeInit /\ [][RecognizeNext]_vars

\* the identifiers of a query that begin with a lowercase letter and
\* contain a capital
CamelCaseWords(s) ==
    {SubSeq(s, i, WordEnd(s, i)) : i \in {j \in WordStarts(s) :
        /\ IsLower(s[j])
        /\ \E k \in j..WordEnd(s, j) : IsUpper(s[k])}}

\* C18: recognize("find the parseConfig function") returns the intent
\* find_code with parseConfig among the entities, and every camelCase
\* identifier of a query is among the entities recognize returns
C18_CamelCaseIsAnEntity ==
    ret.op = "recognize" =>
        /\ ret.text = FindParseConfig => ret.result.intent_type = "find_code"
        /\ \A w \in CamelCaseWords(ret.text) :
               \E k \in 1..Len(ret.result.entities) : ret.result.entities[k] = w

\* the order of the intents in intent_patterns
IntentOrder == <<"find_code", "explain", "debug", "refactor", "architect">>

\* the number of cue patterns of the intent at place k that match the query
CueCount(text, k) == CueScore(Lower(text), intent_patterns[k].patterns)

\* the intents with the highest number of matching cue patterns
TopIntents(text) ==
    {k \in 1..Len(IntentOrder) : \A j \in 1..Len(IntentOrder) :
        CueCount(text, j) <= CueCount(text, k)}

\* C19: recognize returns the intent with the most matching cue patterns,
\* the earliest of find_code, explain, debug, refactor, architect when
\* several have the most, and find_code when no cue matches
C19_HighestCountEarliestWins ==
    ret.op = "recognize" =>
        /\ \A k \in 1..Len(IntentOrder) : intent_patterns[k].intent = IntentOrder[k]
        /\ \E k \in TopIntents(ret.text) :
              /\ \A j \in TopIntents(ret.text) : k <= j
              /\ ret.result.intent_type = IntentOrder[k]
        /\ (\A k \in 1..Len(IntentOrder) : CueCount(ret.text, k) = 0)
               => ret.result.intent_type = "find_code"

\* "how system" has one explain cue and one architect cue and no other:
\* the earlier of the two, explain, came back
C19_Witness ==
    /\ ret.op = "recognize"
    /\ CueCount(ret.text, 2) = 1
    /\ CueCount(ret.text, 5) = 1
    /\ TopIntents(ret.text) = {2, 5}
    /\ ret.result.intent_type = "explain"


\* ---------------------------------------------------------------------
\* BrainV2.embed
\* ---------------------------------------------------------------------

\* the dimension of the vectors of both tables and of [0.0] * 384
EmbedDim == 384

ZeroVector == [i \in 1..EmbedDim |-> 0]

\* the return of embed when nothing catches what the backend raises
embed_NoCatch(is_ready, model, use_fastembed, backend) ==
    IF ~is_ready THEN [raised |-> FALSE, value |-> ZeroVector]
    ELSE IF use_fastembed /\ model
    THEN IF backend.raises \/ backend.embeddings = <<>>
         THEN [raised |-> TRUE, value |-> <<>>]
         ELSE [raised |-> FALSE, value |-> backend.embeddings[1]]
    ELSE IF model
    THEN IF backend.raises
         THEN [raised |-> TRUE, value |-> <<>>]
         ELSE [raised |-> FALSE, value |-> backend.embeddings[1]]
    ELSE [raised |-> FALSE, value |-> ZeroVector]

\* embed(text): backend is what the model does with the text, raise or
\* return embeddings; list(...)[0] of no embeddings raises IndexError,
\* and the except clause falls through to the zero vector
embed(is_ready, model, use_fastembed, backend) ==
    IF ~is_ready THEN [raised |-> FALSE, value |-> ZeroVector]
    ELSE IF use_fastembed /\ model
    THEN IF backend.raises \/ backend.embeddings = <<>>
         THEN [raised |-> FALSE, value |-> ZeroVector]
         ELSE [raised |-> FALSE, value |-> backend.embeddings[1]]
    ELSE IF model
    THEN IF backend.raises
         THEN [raised |-> FALSE, value |-> ZeroVector]
         ELSE [raised |-> FALSE, value |-> backend.embeddings[1]]
    ELSE [raised |-> FALSE, value |-> ZeroVector]

\* the models _initialize may leave: none, FastEmbed, SentenceTransformers
EmbedModels ==
    { [model |-> FALSE, use_fastembed |-> FALSE],
      [model |-> TRUE, use_fastembed |-> TRUE],
      [model |-> TRUE, use_fastembed |-> FALSE] }

\* two vectors a backend returns
EmbedVectors == {[i \in 1..EmbedDim |-> 1], [i \in 1..EmbedDim |-> IF i = 1 THEN 2 ELSE 0]}

\* what the backend does: raise, or return no or one embedding (encode of
\* SentenceTransformers always returns one)
EmbedBackends(use_fastembed) ==
    {[raises |-> TRUE, embeddings |-> <<>>]}
        \cup {[raises |-> FALSE, embeddings |-> <<v>>] : v \in EmbedVectors}
        \cup (IF use_fastembed THEN {[raises |-> FALSE, embeddings |-> <<>>]} ELSE {})

EmbedCall ==
    /\ call.op = "embed"
    /\ ret' = [op |-> "embed", text |-> call.text, model |-> call.model,
               backend |-> call.backend]
                 @@ embed(ready, call.model.model, call.model.use_fastembed, call.backend)
    /\ call' = NoCall
    /\ UNCHANGED <<cacheVars, graphVars, brainVars, watchVars>>

EmbedInit ==
    /\ SmartCacheInit
    /\ WatcherInit
    /\ CodeGraphInit
    /\ ready \in BOOLEAN
    /\ fs = <<>>
    /\ table = <<>>
    /\ entity_cache = <<>>
    /\ memory_table = <<>>
    /\ query_history = <<>>
    /\ \E text \in QueryTexts, model \in EmbedModels :
         \E backend \in EmbedBackends(model.use_fastembed) :
           call = [op |-> "embed", text |-> text, model |-> model, backend |-> backend]
    /\ ret = [op |-> "init"]

EmbedNext == EmbedCall

SpecEmbed == EmbedInit /\ [][EmbedNext]_vars

\* the embedding backend of the call was not available or failed
BackendUnavailable(r) ==
    \/ ~ready
    \/ ~r.model.model
    \/ r.backend.raises

\* C22: embed raises nothing and returns a vector of 384 numbers, the
\* zero vector when the brain is not ready, when no model is loaded and
\* when the backend raises
C22_EmbedNeverRaises ==
    ret.op = "embed" =>
        /\ ~ret.raised
        /\ Len(ret.value) = 384
        /\ BackendUnavailable(ret) => \A i \in 1..384 : ret.value[i] = 0

\* a ready brain with FastEmbed whose backend raised got the zero vector
C22_Witness ==
    /\ ret.op = "embed"
    /\ ready
    /\ ret.model.use_fastembed
    /\ ret.backend.raises
    /\ ret.value = ZeroVector

\* ---------------------------------------------------------------------
\* query when the search of the vector store may raise
\* ---------------------------------------------------------------------

SearchTexts == GateCommands

\* query(text, n) on a ready brain whose cache holds no list for the key,
\* when table.search(...) or _reconstruct_entity raises: no try encloses
\* lines 924-954, the exception leaves query after smart_cache.get and
\* before smart_cache.put and query_history.append
QueryRaises(op, text, n) ==
    /\ SetSmartCache(SmartCacheGet(SmartCache, <<text, n>>))
    /\ ret' = [op |-> op, text |-> text, n |-> n, value |-> <<>>,
               not_ready |-> FALSE, hit |-> FALSE, store_calls |-> 1,
               vector_results |-> <<>>, raised |-> TRUE, search_raises |-> TRUE]
    /\ UNCHANGED <<graphVars, brainVars>>

\* query(text, n): the search returns vector_results or raises
QuerySearch ==
    \E text \in SearchTexts, n \in Limits, search_raises \in BOOLEAN :
        \E vector_results \in FullOutcomes(table, n * 2, MainDistances) :
            /\ IF /\ ready
                  /\ search_raises
                  /\ SmartCacheGetValue(SmartCache, <<text, n>>) \in {None, Some(<<>>)}
               THEN QueryRaises("query", text, n)
               ELSE QueryWith("query", text, n, vector_results,
                              [raised |-> FALSE, search_raises |-> FALSE])
            /\ UNCHANGED <<call, watchVars>>

SearchNext == QuerySearch

SpecSearch == AskInit /\ [][SearchNext]_vars

\* C21: on a ready index query raises nothing, and a query whose search
\* of the vector store fails returns the empty list
C21_SearchFailureIsEmptyResult ==
    (ret.op = "query" /\ ~ret.not_ready) =>
        /\ ~ret.raised
        /\ ret.search_raises => ret.value = <<>>

(***************************************************************************)
(* The writers of the vector store: the watchdog thread runs on_modified   *)
(* and the thread of the host runs brain_v2_index_dir; index_file takes no *)
(* lock.  call.pc holds, for each thread, the index_file it is in: its     *)
(* path, the next store call and the paths the caller hands over later.    *)
(***************************************************************************)
Threads == {"watcher", "tool"}

Idle == [op |-> "idle", path |-> <<>>, step |-> "", todo |-> <<>>, caller |-> ""]

\* a thread enters index_file(path); todo are the paths its caller's loop
\* hands to index_file afterwards
InIndexFile(path, todo, caller) ==
    [op |-> "index_file", path |-> path, step |-> "delete", todo |-> todo,
     caller |-> caller]

\* index_file up to and including table.delete (lines 813-833)
IndexFileDelete(b, is_ready, files, path) ==
    IF ~is_ready \/ Suffix(path) \notin IndexedSuffixes \/ path \notin DOMAIN files THEN b
    ELSE LET new_entities == parse_file(path, files[path])
             old_entities == Lookup(b.entity_cache, path)
             b1 == IF old_entities # <<>>
                   THEN [b EXCEPT !.memory_table =
                            @ \o _track_evolution(is_ready, path, old_entities, new_entities)]
                   ELSE b
         IN  [b1 EXCEPT !.table = DeleteFilePath(@, path)]

\* index_file after table.delete: the loop over the entities and table.add
\* (lines 835-874)
IndexFileAdd(b, is_ready, files, path) ==
    IF ~is_ready \/ Suffix(path) \notin IndexedSuffixes \/ path \notin DOMAIN files THEN b
    ELSE LET new_entities == parse_file(path, files[path])
             b3 == IndexEntities(b, path, new_entities, 1)
         IN  [b3 EXCEPT !.table = @ \o Chunks(new_entities, path)]

WriterFiles == (PathA :> SrcOne) @@ (PathB :> SrcImportsA)

\* the notifications the watchdog thread lets through in a run
MaxNotifications == 1

\* the length of import_map at which the host stops calling brain_v2_index_dir
MaxImports == 2

\* the watchdog thread takes a notification that on_modified lets through
\* to index_file (lines 1058-1090)
WatcherBegin ==
    \E path \in DOMAIN fs, now \in Times :
        /\ call.pc["watcher"].op = "idle"
        /\ Len(accepted) < MaxNotifications
        /\ ready
        /\ ~Debounced(last_event, now)
        /\ ~Ignored(path)
        /\ Suffix(path) \in IndexedSuffixes
        /\ last_event' = now
        /\ accepted' = Append(accepted, now)
        /\ call' = [call EXCEPT !.pc["watcher"] = InIndexFile(path, <<>>, "on_modified")]
        /\ ret' = [op |-> "on_modified", path |-> path, now |-> now, thread |-> "watcher"]
        /\ UNCHANGED <<cacheVars, graphVars, brainVars>>

\* the host calls brain_v2_index_dir, which walks the files (lines 1275-1312)
ToolBegin ==
    \E order \in WalkOrders(WalkFiles(fs, Root)) :
        /\ call.pc["tool"].op = "idle"
        /\ SumLen(import_map, DOMAIN import_map) < MaxImports
        /\ ready
        /\ order # <<>>
        /\ call' = [call EXCEPT !.pc["tool"] =
                       InIndexFile(Head(order), Tail(order), "brain_v2_index_dir")]
        /\ ret' = [op |-> "brain_v2_index_dir", path |-> Root, now |-> 0, thread |-> "tool"]
        /\ UNCHANGED <<cacheVars, graphVars, brainVars, watchVars>>

\* a thread in index_file reaches table.delete
IndexDeleteStep(t) ==
    /\ call.pc[t].op = "index_file"
    /\ call.pc[t].step = "delete"
    /\ SetBrain(IndexFileDelete(Brain, ready, fs, call.pc[t].path))
    /\ call' = [call EXCEPT !.pc[t].step = "add"]
    /\ ret' = [op |-> "table.delete", path |-> call.pc[t].path, now |-> 0, thread |-> t]
    /\ UNCHANGED <<cacheVars, ready, fs, query_history, watchVars>>

\* a thread in index_file runs the loop and table.add and returns; its
\* caller goes on to the next path: on_modified to the importers of the
\* changed file, a loop to the rest of its paths
IndexAddStep(t) ==
    /\ call.pc[t].op = "index_file"
    /\ call.pc[t].step = "add"
    /\ LET me == call.pc[t]
           b == IndexFileAdd(Brain, ready, fs, me.path)
       IN  /\ SetBrain(b)
           /\ \E todo \in IF me.caller = "on_modified"
                          THEN WalkOrders(Importers(b.entity_cache, me.path))
                          ELSE {me.todo} :
                 call' = [call EXCEPT !.pc[t] =
                             IF todo = <<>> THEN Idle
                             ELSE InIndexFile(Head(todo), Tail(todo),
                                      IF me.caller = "on_modified"
                                      THEN "_reindex_importers" ELSE me.caller)]
    /\ ret' = [op |-> "table.add", path |-> call.pc[t].path, now |-> 0, thread |-> t]
    /\ UNCHANGED <<cacheVars, ready, fs, query_history, watchVars>>

WriterInit ==
    /\ SmartCacheInit
    /\ WatcherInit
    /\ CodeGraphInit
    /\ ready = TRUE
    /\ fs = WriterFiles
    /\ table = <<>>
    /\ entity_cache = <<>>
    /\ memory_table = <<>>
    /\ query_history = <<>>
    /\ call = [op |-> "threads", pc |-> [t \in Threads |-> Idle]]
    /\ ret = [op |-> "init"]

WriterNext ==
    \/ WatcherBegin
    \/ ToolBegin
    \/ \E t \in Threads : IndexDeleteStep(t)
    \/ \E t \in Threads : IndexAddStep(t)

SpecWriters == WriterInit /\ [][WriterNext]_vars

\* the threads that are inside index_file
Writers == {t \in Threads : call.pc[t].op = "index_file"}

\* C23: at most one execution of index_file is in progress at any moment
C23_OneWriter ==
    Cardinality(Writers) <= 1

(***************************************************************************)
(* The result cache under threads: one thread of the query path runs       *)
(* SmartCache.get and SmartCache.put statement by statement inside         *)
(* `with self.lock`, another runs the two clear() calls of brain_v2_purge, *)
(* which do not take the lock.  call.pc holds the statement each thread is *)
(* at, call.lock the thread holding SmartCache.lock.                       *)
(***************************************************************************)
CacheThreads == {"query", "purge"}

\* one key more than the cache holds
ThreadKeys == 1..(max_size + 1)

CacheIdle == [op |-> "idle", at |-> "", key |-> 0, value |-> <<>>, lru_key |-> 0]

At(t, op, at) == call.pc[t].op = op /\ call.pc[t].at = at

\* the thread moves to the statement at of its operation
Goto(t, at) == call' = [call EXCEPT !.pc[t].at = at]

\* the operation of the thread ends and the with block releases the lock
Return(t) == call' = [call EXCEPT !.pc[t] = CacheIdle, !.lock = ""]

\* what ret shows of a statement of the thread
CacheRet(t, op, raised) ==
    [op |-> op, thread |-> t, key |-> call.pc[t].key, raised |-> raised]

\* get(key): with self.lock: if key in self.cache
GetTest ==
    \E key \in ThreadKeys :
        /\ call.pc["query"].op = "idle"
        /\ call.lock = ""
        /\ IF key \in DOMAIN cache
           THEN call' = [call EXCEPT !.lock = "query",
                            !.pc["query"] = [CacheIdle EXCEPT !.op = "get",
                                                !.at = "remove", !.key = key]]
           ELSE UNCHANGED call
        /\ ret' = [op |-> "get", thread |-> "query", key |-> key, raised |-> FALSE]
        /\ UNCHANGED <<cacheVars, graphVars, brainVars, watchVars>>

\* self.access_order.remove(key): ValueError when the key is not there
GetRemove ==
    /\ At("query", "get", "remove")
    /\ LET key == call.pc["query"].key
       IN  IF key \in Range(access_order)
           THEN /\ access_order' = RemoveFirst(access_order, key)
                /\ Goto("query", "append")
                /\ ret' = CacheRet("query", "get", FALSE)
           ELSE /\ UNCHANGED access_order
                /\ Return("query")
                /\ ret' = CacheRet("query", "get", TRUE)
    /\ UNCHANGED <<cache, recency, graphVars, brainVars, watchVars>>

\* self.access_order.append(key)
GetAppend ==
    /\ At("query", "get", "append")
    /\ access_order' = Append(access_order, call.pc["query"].key)
    /\ Goto("query", "return")
    /\ ret' = CacheRet("query", "get", FALSE)
    /\ UNCHANGED <<cache, recency, graphVars, brainVars, watchVars>>

\* return self.cache[key]: KeyError when the key is not there
GetReturn ==
    /\ At("query", "get", "return")
    /\ LET key == call.pc["query"].key
       IN  /\ recency' = IF key \in DOMAIN cache
                         THEN Append(Without(recency, key), key) ELSE recency
           /\ ret' = CacheRet("query", "get", key \notin DOMAIN cache)
    /\ Return("query")
    /\ UNCHANGED <<cache, access_order, graphVars, brainVars, watchVars>>

\* put(key, value): with self.lock: if key in self.cache ... elif
\* len(self.cache) >= self.max_size
PutTest ==
    \E key \in ThreadKeys, value \in {<<"r1">>} :
        /\ call.pc["query"].op = "idle"
        /\ call.lock = ""
        /\ call' = [call EXCEPT !.lock = "query",
                       !.pc["query"] = [CacheIdle EXCEPT !.op = "put", !.key = key,
                           !.value = value,
                           !.at = IF key \in DOMAIN cache THEN "remove"
                                  ELSE IF Cardinality(DOMAIN cache) >= max_size
                                  THEN "popleft" ELSE "set"]]
        /\ ret' = [op |-> "put", thread |-> "query", key |-> key, raised |-> FALSE]
        /\ UNCHANGED <<cacheVars, graphVars, brainVars, watchVars>>

\* self.access_order.remove(key): ValueError when the key is not there
PutRemove ==
    /\ At("query", "put", "remove")
    /\ LET key == call.pc["query"].key
       IN  IF key \in Range(access_order)
           THEN /\ access_order' = RemoveFirst(access_order, key)
                /\ Goto("query", "set")
                /\ ret' = CacheRet("query", "put", FALSE)
           ELSE /\ UNCHANGED access_order
                /\ Return("query")
                /\ ret' = CacheRet("query", "put", TRUE)
    /\ UNCHANGED <<cache, recency, graphVars, brainVars, watchVars>>

\* lru_key = self.access_order.popleft(): IndexError on an empty deque
PutPopleft ==
    /\ At("query", "put", "popleft")
    /\ IF access_order # <<>>
       THEN /\ access_order' = Tail(access_order)
            /\ call' = [call EXCEPT !.pc["query"].at = "del",
                                    !.pc["query"].lru_key = LruKey(access_order)]
            /\ ret' = CacheRet("query", "put", FALSE)
       ELSE /\ UNCHANGED access_order
            /\ Return("query")
            /\ ret' = CacheRet("query", "put", TRUE)
    /\ UNCHANGED <<cache, recency, graphVars, brainVars, watchVars>>

\* del self.cache[lru_key]: KeyError when the key is not there
PutDel ==
    /\ At("query", "put", "del")
    /\ LET lru_key == call.pc["query"].lru_key
       IN  IF lru_key \in DOMAIN cache
           THEN /\ cache' = DictDel(cache, lru_key)
                /\ Goto("query", "set")
                /\ ret' = CacheRet("query", "put", FALSE)
           ELSE /\ UNCHANGED cache
                /\ Return("query")
                /\ ret' = CacheRet("query", "put", TRUE)
    /\ UNCHANGED <<access_order, recency, graphVars, brainVars, watchVars>>

\* self.cache[key] = value
PutSet ==
    /\ At("query", "put", "set")
    /\ cache' = DictSet(cache, call.pc["query"].key, call.pc["query"].value)
    /\ Goto("query", "append")
    /\ ret' = CacheRet("query", "put", FALSE)
    /\ UNCHANGED <<access_order, recency, graphVars, brainVars, watchVars>>

\* self.access_order.append(key)
PutAppend ==
    /\ At("query", "put", "append")
    /\ access_order' = Append(access_order, call.pc["query"].key)
    /\ recency' = Append(Without(recency, call.pc["query"].key), call.pc["query"].key)
    /\ Return("query")
    /\ ret' = CacheRet("query", "put", FALSE)
    /\ UNCHANGED <<cache, graphVars, brainVars, watchVars>>

\* brain_v2_purge reaches _BRAIN_V2.smart_cache.cache.clear()
PurgeClearCache ==
    /\ call.pc["purge"].op = "idle"
    /\ cache' = <<>>
    /\ call' = [call EXCEPT !.pc["purge"] =
                   [CacheIdle EXCEPT !.op = "purge", !.at = "access_order.clear"]]
    /\ ret' = [op |-> "purge", thread |-> "purge", key |-> 0, raised |-> FALSE]
    /\ UNCHANGED <<access_order, recency, graphVars, brainVars, watchVars>>

\* _BRAIN_V2.smart_cache.access_order.clear()
PurgeClearOrder ==
    /\ At("purge", "purge", "access_order.clear")
    /\ access_order' = <<>>
    /\ call' = [call EXCEPT !.pc["purge"] = CacheIdle]
    /\ ret' = [op |-> "purge", thread |-> "purge", key |-> 0, raised |-> FALSE]
    /\ UNCHANGED <<cache, recency, graphVars, brainVars, watchVars>>

CacheThreadsInit ==
    /\ SmartCacheInit
    /\ WatcherInit
    /\ CodeGraphInit
    /\ BrainReady
    /\ call = [op |-> "threads", lock |-> "", pc |-> [t \in CacheThreads |-> CacheIdle]]
    /\ ret = [op |-> "init"]

CacheThreadsNext ==
    \/ GetTest
    \/ GetRemove
    \/ GetAppend
    \/ GetReturn
    \/ PutTest
    \/ PutRemove
    \/ PutPopleft
    \/ PutDel
    \/ PutSet
    \/ PutAppend
    \/ PurgeClearCache
    \/ PurgeClearOrder

SpecCacheThreads == CacheThreadsInit /\ [][CacheThreadsNext]_vars

\* no get, put or clear is in progress
CacheQuiet == \A t \in CacheThreads : call.pc[t].op = "idle"

\* C24: however get and put interleave with the clear of brain_v2_purge, no
\* get or put fails, and between operations the keys of the cache map are
\* the keys of the access order
C24_CacheConsistentUnderPurge ==
    /\ ret.op \in {"get", "put"} => ~ret.raised
    /\ CacheQuiet => DOMAIN cache = Range(access_order)

(***************************************************************************)
(* Claims on the edges of the graph, on the graph model.                   *)
(***************************************************************************)
\* the entity a imports a name the entity b exports
ImportsFrom(a, b) == \E imp \in Range(a.imports) : imp \in Range(b.exports)

\* C25: whatever the order of the add_entity calls, for all entities a and
\* b of the graph where a imports a name b exports there is the forward
\* edge a -> b and the reverse edge from b to a
C25_EdgesForEveryMatch ==
    \A i, j \in 1..Len(nodes) :
        ImportsFrom(nodes[i], nodes[j]) =>
            /\ nodes[j].id \in Range(Lookup(edges, nodes[i].id))
            /\ nodes[i].id \in Range(Lookup(reverse_deps, nodes[j].id))

(***************************************************************************)
(* The store model: a ready brain whose two files are rewritten, indexed,  *)
(* deleted and purged, one operation after the other and with a store      *)
(* that works.                                                             *)
(***************************************************************************)
\* a file or a directory is deleted and on_deleted runs; table.delete works
OnDeletedWorking(files) ==
    \E path \in (DOMAIN files) \cup {DirL} :
        /\ ready
        /\ path # DirL => path \in DOMAIN fs
        /\ fs' = [p \in {q \in DOMAIN fs : q # path /\ ~IsUnder(q, path)} |-> fs[p]]
        /\ SetBrain(on_deleted(Brain, path = DirL, path, FALSE))
        /\ ret' = [op |-> "on_deleted", path |-> path, is_directory |-> (path = DirL),
                   delete_raises |-> FALSE]
        /\ UNCHANGED <<cacheVars, ready, query_history, call, watchVars>>

StoreNext ==
    \/ WriteFile(IndexFiles)
    \/ IndexFile(IndexFiles)
    \/ OnDeletedWorking(IndexFiles)
    \/ BrainV2Purge

SpecStore == IndexInit /\ [][StoreNext]_vars

\* index_file has just indexed a code file that exists
IndexedCodeFile(r) ==
    /\ r.op = "index_file"
    /\ ~r.not_ready
    /\ Suffix(r.path) \in IndexedSuffixes
    /\ r.path \in DOMAIN fs

\* the ids of the entities the extraction of the file path yields
ExtractedIds(path) ==
    LET entities == parse_file(path, fs[path])
    IN  {entities[k].id : k \in 1..Len(entities)}

\* the ids of the nodes of ns that the operation r superseded: those of the
\* indexed file its extraction no longer yields, those of the deleted file,
\* those of the files whose entries the purge removed
SupersededBy(r, ns) ==
    {ns[k].id : k \in
        {k \in 1..Len(ns) :
            \/ IndexedCodeFile(r) /\ ns[k].file_path = r.path
                                  /\ ns[k].id \notin ExtractedIds(r.path)
            \/ DeletedCodeFile(r) /\ ns[k].file_path = r.path
            \/ /\ r.op = "brain_v2_purge"
               /\ ~r.not_ready
               /\ r.count > 0
               /\ MatchesPattern(r.pattern, ns[k].file_path)}}

\* the names of the nodes of ns
NodeNames(ns) == {ns[k].name : k \in 1..Len(ns)}

\* C26: once a file is reindexed, deleted or purged, the entities this
\* superseded are no nodes of the graph any more: find_by_name returns none
\* of them for any name, and get_stats, which counts the nodes, does not
\* count them
C26_SupersededAbsentFromGraph ==
    [][ \A id \in SupersededBy(ret', nodes) :
          /\ \A name \in NodeNames(nodes) : id \notin Range(find_by_name(nodes', name))
          /\ id \notin NodeIds(nodes') ]_vars

\* the ids of the rows of the table with the file path
RowIds(tbl, path) == {tbl[k].entity_id : k \in {k \in 1..Len(tbl) : tbl[k].file_path = path}}

\* the ids of the entities the entity cache holds for the file path
CachedIds(ec, path) ==
    IF path \in DOMAIN ec THEN {ec[path][k].id : k \in 1..Len(ec[path])} ELSE {}

\* C27: for every file path the ids of its rows in the table are the ids of
\* its entities in the entity cache, and no two rows have the same id
C27_StoreMirrorsEntityCache ==
    /\ \A path \in DOMAIN IndexFiles : RowIds(table, path) = CachedIds(entity_cache, path)
    /\ \A i, j \in 1..Len(table) : table[i].entity_id = table[j].entity_id => i = j

(***************************************************************************)
(* The importer model: files that import each other are indexed, then the  *)
(* watcher handles change notifications for them.                          *)
(***************************************************************************)
PathC == <<"l", "/", "c", ".py">>

\* a file importing the module b
SrcImportsB ==
    SourceText(<< <<"b">> >>,
               << Decl("function", NameH, <<"4">>, None, SigOne, 1, 2, <<NameH>>) >>)

\* c imports b and b imports a
ChainFiles == (PathA :> SrcOne) @@ (PathB :> SrcImportsA) @@ (PathC :> SrcImportsB)

\* a imports b and b imports a
CycleFiles == (PathA :> SrcImportsB) @@ (PathB :> SrcImportsA)

\* a imports its own base name
SelfFiles == (PathA :> SrcImportsA) @@ (PathB :> SrcOne)

\* the files have been indexed, in one order of the walk
ImporterInit ==
    /\ SmartCacheInit
    /\ WatcherInit
    /\ ready = TRUE
    /\ fs \in {ChainFiles, CycleFiles, SelfFiles}
    /\ \E order \in {CHOOSE o \in WalkOrders(DOMAIN fs) : TRUE} :
         LET b == IndexAll(EmptyBrain, TRUE, fs, order, 1)
         IN  /\ table = b.table
             /\ entity_cache = b.entity_cache
             /\ memory_table = b.memory_table
             /\ nodes = b.nodes
             /\ edges = b.edges
             /\ import_map = b.import_map
             /\ reverse_deps = b.reverse_deps
    /\ query_history = <<>>
    /\ call = NoCall
    /\ ret = [op |-> "init"]

ImporterNext == OnModified

SpecImporters == ImporterInit /\ [][ImporterNext]_vars

\* on_modified has just let a notification for a code file through to
\* index_file
ReindexedCodeFile(r) ==
    /\ r.op = "on_modified"
    /\ r.passed
    /\ ~Ignored(r.path)
    /\ Suffix(r.path) \in IndexedSuffixes

\* the files of the entity cache ec with an entity that imports the base
\* name of one of the files ps
ImportersOfAny(ec, ps) ==
    {q \in DOMAIN ec : \E p \in ps : \E k \in 1..Len(ec[q]) :
        Stem(p) \in Range(ec[q][k].imports)}

RECURSIVE Dependents(_, _)
\* the files that import one of the files ps, directly or through others
Dependents(ec, ps) ==
    LET more == ps \cup ImportersOfAny(ec, ps)
    IN  IF more = ps THEN ps ELSE Dependents(ec, more)

C29_OneReindexPerCachedFile ==
    [][ ReindexedCodeFile(ret') =>
          /\ ret'.indexed[1] = ret'.path
          /\ Len(ret'.indexed) <= 1 + Cardinality(DOMAIN entity_cache')
          /\ \A i, j \in 2..Len(ret'.indexed) :
                /\ ret'.indexed[i] \in DOMAIN entity_cache'
                /\ ret'.indexed[i] = ret'.indexed[j] => i = j
      ]_vars

\* l/a.py imports its own base name: it was indexed as the changed file
\* and once more as its own importer
C29_Witness ==
    /\ fs = SelfFiles
    /\ ReindexedCodeFile(ret)
    /\ ret.indexed = <<PathA, PathA>>

\* a notification on_modified ignores: for a directory, for a path under an
\* ignored directory or for a file with an unsupported suffix
IgnoredNotification(r) ==
    /\ r.op = "on_modified"
    /\ \/ r.is_directory
       \/ Ignored(r.path)
       \/ Suffix(r.path) \notin IndexedSuffixes

\* C30: a notification on_modified ignores changes nothing of the state of
\* the watcher and the index, the debounce timestamp included
C30_IgnoredLeavesStateUnchanged ==
    [][ IgnoredNotification(ret') =>
          /\ last_event' = last_event
          /\ UNCHANGED <<cacheVars, graphVars, brainVars>> ]_vars

(***************************************************************************)
(* The delivery model: files of an indexed directory are rewritten, the    *)
(* watchdog thread queues one notification per write and hands them to     *)
(* on_modified one after the other; on_modified reads the clock when it    *)
(* runs (brain_v2.py 1061).  call holds the queue, the clock and the       *)
(* number of writes.                                                       *)
(***************************************************************************)
MaxWrites == 2

\* two files that do not import each other, and the contents written to them
DeliveryFiles == (PathA :> {SrcOne, SrcTwo}) @@ (PathB :> {SrcOne, SrcTwo})

\* the files as they are when the directory is indexed
DeliveryStart == (PathA :> SrcOne) @@ (PathB :> SrcOne)

\* a file is rewritten and the watchdog thread queues its notification
ModifyFile ==
    \E path \in DOMAIN DeliveryFiles :
        \E content \in DeliveryFiles[path] \ {fs[path]} :
            /\ call.writes < MaxWrites
            /\ fs' = DictSet(fs, path, content)
            /\ call' = [call EXCEPT !.queue = Append(@, path), !.writes = @ + 1]
            /\ ret' = [op |-> "write", path |-> path]
            /\ UNCHANGED <<cacheVars, graphVars, ready, table, entity_cache,
                           memory_table, query_history, watchVars>>

\* the watchdog thread hands the oldest queued notification to on_modified
Deliver ==
    /\ call.queue # <<>>
    /\ \E now \in call.clock..MaxTime :
        LET path == Head(call.queue)
            b1 == index_file(Brain, ready, fs, path)
        IN  \E order \in WalkOrders(Importers(b1.entity_cache, path)) :
            \E w \in {on_modified(last_event, Brain, ready, fs, FALSE, now, path, order)} :
                /\ last_event' = w.last_event
                /\ accepted' = IF w.passed THEN Append(accepted, now) ELSE accepted
                /\ SetBrain(w.b)
                /\ call' = [call EXCEPT !.queue = Tail(@), !.clock = now]
                /\ ret' = [op |-> "on_modified", path |-> path, now |-> now,
                           is_directory |-> FALSE, passed |-> w.passed,
                           indexed |-> w.indexed]
                /\ UNCHANGED <<cacheVars, ready, fs, query_history>>

\* the directory has been indexed and the watcher started
DeliveryInit ==
    /\ SmartCacheInit
    /\ WatcherInit
    /\ ready = TRUE
    /\ fs = DeliveryStart
    /\ \E order \in {CHOOSE o \in WalkOrders(DOMAIN fs) : TRUE} :
         LET b == IndexAll(EmptyBrain, TRUE, fs, order, 1)
         IN  /\ table = b.table
             /\ entity_cache = b.entity_cache
             /\ memory_table = b.memory_table
             /\ nodes = b.nodes
             /\ edges = b.edges
             /\ import_map = b.import_map
             /\ reverse_deps = b.reverse_deps
    /\ query_history = <<>>
    /\ call = [op |-> "watchdog", queue |-> <<>>, clock |-> debounce_seconds,
               writes |-> 0]
    /\ ret = [op |-> "init"]

DeliveryNext == ModifyFile \/ Deliver

\* the watchdog thread keeps running: a queued notification is delivered
SpecDelivery == DeliveryInit /\ [][DeliveryNext]_vars /\ WF_vars(Deliver)

\* the entity cache and the rows of the file are those of its content
Reflects(path) ==
    /\ Lookup(entity_cache, path) = parse_file(path, fs[path])
    /\ RowsOf(table, path) = Chunks(parse_file(path, fs[path]), path)

\* C31: once every notification has been delivered and none follows, the
\* entity cache and the rows of every written file are, from some point on,
\* those of the content last written to it
C31_ModificationEventuallyIndexed ==
    <>[](call.queue = <<>>) => <>[](\A path \in DOMAIN DeliveryFiles : Reflects(path))

\* C32: a query whose key (text, n) the result cache holds, be the cached
\* list empty or not, returns the cached list without recognizing the
\* intent, searching the store or appending to the query history
C32_CachedEntryReturnedImmediately ==
    [][ (ret'.op = "query" /\ ~ret'.not_ready /\ <<ret'.text, ret'.n>> \in DOMAIN cache) =>
          /\ ret'.hit
          /\ ret'.value = cache[<<ret'.text, ret'.n>>]
          /\ ret'.store_calls = 0
          /\ query_history' = query_history ]_vars

\* the reason names the condition whose phrase starts with the word
Names(reason, word) == \E k \in 1..Len(reason) : reason[k][1] = word

\* C33: the reason of every result of a query names a kind match exactly
\* when the kind multiplier 0.8 was applied to its score, documentation
\* exactly when the documentation multiplier 0.7 was, a name match exactly
\* when the multiplier 0.6 was, a concept exactly when the concept
\* multiplier 0.7 was, and is the generic string exactly when none was
C33_ReasonListsMultipliers ==
    (ret.op = "query" /\ ~ret.not_ready) =>
        \E intent \in {recognize(ret.text)} :
            \A i \in 1..Len(ret.value) :
                LET entity == ret.value[i].entity
                    reason == ret.value[i].reason
                IN  /\ Names(reason, "Matches") <=> IntentFactor(intent, entity) = 8
                    /\ Names(reason, "Has documentation")
                           <=> IntentFactor(intent, entity) = 7
                    /\ Names(reason, "Name matches query")
                           <=> EntityFactor(intent, entity) = 6
                    /\ Names(reason, "Contains") <=> ConceptFactor(intent, entity) = 7
                    /\ Names(reason, "Semantic similarity")
                           <=> /\ IntentFactor(intent, entity) = 10
                               /\ EntityFactor(intent, entity) = 10
                               /\ ConceptFactor(intent, entity) = 10

(***************************************************************************)
(* The history model: queries with several texts of a brain that has       *)
(* indexed one file; the search returns the row of the file or nothing.    *)
(***************************************************************************)
HistoryTexts ==
    { <<"g", "e", "t", " ", "F", " ", "c", "o", "d", "e">>,
      <<"e", "x", "p", "l", "a", "i", "n", " ", "F">>,
      <<"x">> }

\* the brain after index_file of l/a.py
HistoryBrain == index_file(EmptyBrain, TRUE, (PathA :> SrcOne), PathA)

HistoryQuery ==
    \E text \in HistoryTexts :
        \E vector_results \in SearchOutcomes(table, 2, MainDistances) :
            /\ query(text, 1, vector_results)
            /\ UNCHANGED <<call, watchVars>>

HistoryInit ==
    /\ SmartCacheInit
    /\ WatcherInit
    /\ ready = TRUE
    /\ fs = (PathA :> SrcOne)
    /\ table = HistoryBrain.table
    /\ entity_cache = HistoryBrain.entity_cache
    /\ memory_table = HistoryBrain.memory_table
    /\ nodes = HistoryBrain.nodes
    /\ edges = HistoryBrain.edges
    /\ import_map = HistoryBrain.import_map
    /\ reverse_deps = HistoryBrain.reverse_deps
    /\ query_history = <<>>
    /\ call = NoCall
    /\ ret = [op |-> "init"]

HistoryNext == HistoryQuery

SpecHistory == HistoryInit /\ [][HistoryNext]_vars

\* the record query appends for the query that r reports
HistoryRecord(r) ==
    [text |-> r.text, intent |-> recognize(r.text).intent_type,
     results |-> [i \in 1..Len(r.value) |-> r.value[i].entity.id]]

\* the last n elements of s
LastN(s, n) == SubSeq(s, IF Len(s) > n THEN Len(s) - n + 1 ELSE 1, Len(s))

ContextKeywords ==
    [design |-> {<<"d", "e", "s", "i", "g", "n">>,
                 <<"a", "r", "c", "h", "i", "t", "e", "c", "t", "u", "r", "e">>,
                 <<"p", "a", "t", "t", "e", "r", "n">>},
     debugging |-> {<<"e", "r", "r", "o", "r">>, <<"b", "u", "g">>,
                    <<"f", "i", "x">>, <<"d", "e", "b", "u", "g">>},
     performance |-> {<<"p", "e", "r", "f", "o", "r", "m", "a", "n", "c", "e">>,
                      <<"o", "p", "t", "i", "m", "i", "z", "e">>,
                      <<"f", "a", "s", "t">>}]

\* the lowercased text contains a keyword of the context
Mentions(text, context) == \E w \in ContextKeywords[context] : Contains(Lower(text), w)

Windows(content) ==
    {k \in 0..(((Len(content) + ChunkSize - 1) \div ChunkSize) - 1) :
        \E j \in (ChunkSize * k + 1)..(ChunkSize * k + ChunkSize) :
            j <= Len(content) /\ content[j] # <<>>}

\* C36: for a file with an unknown extension parse_file returns, in order,
\* one chunk for every window of 50 lines that is not blank, the trailing
\* partial window included; the chunk of window k is named chunk_k and
\* holds the lines from 50k up to the end of the window or of the file, and
\* every line that is not blank lies in exactly one chunk
C36_FallbackWindows ==
    (ret.op = "parse_file" /\ Suffix(ret.path) \notin DOMAIN EXTENSION_PARSERS) =>
        LET L == Len(ret.content)
            chunks == ret.value
        IN  /\ Len(chunks) = Cardinality(Windows(ret.content))
            /\ \A n \in 1..Len(chunks) :
                  LET k == chunks[n].start_line \div ChunkSize
                      end == IF ChunkSize * k + ChunkSize < L
                             THEN ChunkSize * k + ChunkSize ELSE L
                  IN  /\ k \in Windows(ret.content)
                      /\ chunks[n].start_line = ChunkSize * k
                      /\ chunks[n].end_line = end
                      /\ chunks[n].name = <<"chunk_">> \o Str(k)
                      /\ chunks[n].content
                             = TextOf(SubSeq(ret.content, ChunkSize * k + 1, end))
                      /\ \A m \in 1..(n - 1) : chunks[m].start_line < chunks[n].start_line
            /\ \A j \in 1..L :
                  ret.content[j] # <<>> =>
                      Cardinality({n \in 1..Len(chunks) :
                          chunks[n].start_line < j /\ j <= chunks[n].end_line}) = 1

\* a text file of 50 blank lines and a line of text has come back as the
\* one chunk of its second, partial window
C36_Witness ==
    /\ ret.op = "parse_file"
    /\ Suffix(ret.path) = ".md"
    /\ Len(ret.content) = ChunkSize + 1
    /\ Len(ret.value) = 1
    /\ ret.value[1].name = <<"chunk_", "1">>
    /\ ret.value[1].end_line = ChunkSize + 1

(***************************************************************************)
(* The iteration model: the watchdog thread runs the loop of               *)
(* _reindex_importers over entity_cache.items() one entry at a time while  *)
(* the thread of the tool calls adds and removes keys.  The dict keeps its *)
(* entries in insertion order and leaves the entry of a deleted key empty; *)
(* its iterator remembers its position and the size of the dict when the   *)
(* loop began, and raises RuntimeError (dictionary changed size during     *)
(* iteration) when the size is another at the next step.  No lock is held  *)
(* (lines 1115-1125, 853, 1332-1335).  call holds the entries and the      *)
(* iterator.                                                               *)
(***************************************************************************)
\* a and the file b that imports it are indexed; c is not yet
IterFiles == (PathA :> SrcOne) @@ (PathB :> SrcImportsA) @@ (PathC :> SrcOne)

IterPatterns == {<<"b">>, <<"c">>}

\* the entries the dict has room for before it is rebuilt
MaxEntries == 4

\* no loop is running
NoLoop == [at |-> "idle"]

\* the entries of the dict once its keys are those of ec
EntriesAfter(entries, ec) ==
    [k \in 1..Len(entries) |->
        IF entries[k] # None /\ entries[k][1] \in DOMAIN ec THEN entries[k] ELSE None]
      \o LET new == SeqOfSet((DOMAIN ec) \ {entries[k][1] : k \in {j \in 1..Len(entries) : entries[j] # None}})
         IN  [k \in 1..Len(new) |-> Some(new[k])]

\* the places of the entries the iterator has still to yield
EntriesLeft == {k \in 1..Len(call.entries) : k > call.it.pos /\ call.entries[k] # None}

\* some entity of the file imports the base name of the changed file
ImportsStem(ec, file_path, changed_file) ==
    \E k \in 1..Len(ec[file_path]) : Stem(changed_file) \in Range(ec[file_path][k].imports)

\* on_modified lets a notification for a.py through, indexes the file and
\* enters the loop of _reindex_importers
LoopBegin ==
    \E path \in {PathA}, now \in Times :
        /\ call.it.at = "idle"
        /\ Len(accepted) < MaxNotifications
        /\ ~Debounced(last_event, now)
        /\ last_event' = now
        /\ accepted' = Append(accepted, now)
        /\ \E b \in {index_file(Brain, ready, fs, path)} :
             /\ SetBrain(b)
             /\ call' = [call EXCEPT
                    !.entries = EntriesAfter(@, b.entity_cache),
                    !.it = [at |-> "loop", changed_file |-> path, pos |-> 0,
                            used |-> Cardinality(DOMAIN b.entity_cache),
                            stayed |-> DOMAIN b.entity_cache, indexed |-> <<>>]]
        /\ ret' = [op |-> "on_modified", path |-> path, now |-> now, thread |-> "watcher"]
        /\ UNCHANGED <<cacheVars, ready, fs, query_history>>

\* the iterator finds the size of the dict changed and raises
LoopRaise ==
    /\ call.it.at = "loop"
    /\ Cardinality(DOMAIN entity_cache) # call.it.used
    /\ call' = [call EXCEPT !.it = NoLoop]
    /\ ret' = [op |-> "_reindex_importers", path |-> call.it.changed_file,
               raised |-> TRUE, indexed |-> call.it.indexed,
               stayed |-> call.it.stayed, thread |-> "watcher"]
    /\ UNCHANGED <<cacheVars, graphVars, brainVars, watchVars>>

\* the iterator yields the next entry and the body of the loop runs
LoopVisit ==
    /\ call.it.at = "loop"
    /\ Cardinality(DOMAIN entity_cache) = call.it.used
    /\ EntriesLeft # {}
    /\ LET k == CHOOSE k \in EntriesLeft : \A m \in EntriesLeft : k <= m
           file_path == call.entries[k][1]
           hit == ImportsStem(entity_cache, file_path, call.it.changed_file)
           b == IF hit THEN index_file(Brain, ready, fs, file_path) ELSE Brain
       IN  /\ SetBrain(b)
           /\ call' = [call EXCEPT
                  !.entries = EntriesAfter(@, b.entity_cache),
                  !.it.pos = k,
                  !.it.indexed = IF hit THEN Append(@, file_path) ELSE @]
           /\ ret' = [op |-> "index_file", path |-> file_path, thread |-> "watcher"]
    /\ UNCHANGED <<cacheVars, ready, fs, query_history, watchVars>>

\* the iterator is exhausted and _reindex_importers returns
LoopEnd ==
    /\ call.it.at = "loop"
    /\ Cardinality(DOMAIN entity_cache) = call.it.used
    /\ EntriesLeft = {}
    /\ call' = [call EXCEPT !.it = NoLoop]
    /\ ret' = [op |-> "_reindex_importers", path |-> call.it.changed_file,
               raised |-> FALSE, indexed |-> call.it.indexed,
               stayed |-> call.it.stayed, thread |-> "watcher"]
    /\ UNCHANGED <<cacheVars, graphVars, brainVars, watchVars>>

\* the keys that have been in the dict since the loop began
Stayed(ec) ==
    IF call.it.at = "loop" THEN [call.it EXCEPT !.stayed = @ \cap DOMAIN ec] ELSE call.it

\* brain_v2_index_dir reaches index_file of a file that is not yet indexed
ToolIndexNew ==
    \E path \in (DOMAIN fs) \ (DOMAIN entity_cache) :
        /\ SumLen(import_map, DOMAIN import_map) < MaxImports
        /\ Len(call.entries) < MaxEntries
        /\ \E b \in {index_file(Brain, ready, fs, path)} :
             /\ SetBrain(b)
             /\ call' = [call EXCEPT !.entries = EntriesAfter(@, b.entity_cache),
                                     !.it = Stayed(b.entity_cache)]
        /\ ret' = [op |-> "index_file", path |-> path, thread |-> "tool"]
        /\ UNCHANGED <<cacheVars, ready, fs, query_history, watchVars>>

\* brain_v2_purge of the files whose path contains the pattern
ToolPurge ==
    \E pattern \in IterPatterns :
        /\ PurgeCount(table, pattern) > 0
        /\ \E b \in {purge(Brain, pattern)} :
             /\ SetBrain(b)
             /\ call' = [call EXCEPT !.entries = EntriesAfter(@, b.entity_cache),
                                     !.it = Stayed(b.entity_cache)]
        /\ SetSmartCache(PurgeSmartCache(SmartCache, table, pattern))
        /\ ret' = [op |-> "brain_v2_purge", pattern |-> pattern, thread |-> "tool"]
        /\ UNCHANGED <<ready, fs, query_history, watchVars>>

\* a.py and b.py have been indexed and the watcher started
IterInit ==
    /\ SmartCacheInit
    /\ WatcherInit
    /\ ready = TRUE
    /\ fs = IterFiles
    /\ \E b \in {IndexAll(EmptyBrain, TRUE, fs, <<PathA, PathB>>, 1)} :
         /\ table = b.table
         /\ entity_cache = b.entity_cache
         /\ memory_table = b.memory_table
         /\ nodes = b.nodes
         /\ edges = b.edges
         /\ import_map = b.import_map
         /\ reverse_deps = b.reverse_deps
    /\ query_history = <<>>
    /\ call = [op |-> "threads", entries |-> <<Some(PathA), Some(PathB)>>, it |-> NoLoop]
    /\ ret = [op |-> "init"]

IterNext ==
    \/ LoopBegin
    \/ LoopRaise
    \/ LoopVisit
    \/ LoopEnd
    \/ ToolIndexNew
    \/ ToolPurge

SpecIterate == IterInit /\ [][IterNext]_vars

\* C37: the loop of _reindex_importers never fails, and when it returns
\* every file that was in the entity cache from its beginning to its end
\* and imports the changed file has been reindexed
C37_IterationSafe ==
    ret.op = "_reindex_importers" =>
        /\ ~ret.raised
        /\ \A file_path \in ret.stayed :
               ImportsStem(entity_cache, file_path, ret.path)
                   => file_path \in Range(ret.indexed)

(***************************************************************************)
(* The result cache under its lock: two threads call SmartCache.get and    *)
(* SmartCache.put.  A call enters its `with self.lock` block when the lock *)
(* is free, makes the test at the head of the body (lines 578 and 587-589) *)
(* and then runs the branch the test chose and releases the lock.          *)
(* call.pc holds the call of each thread, call.lock the holder of the      *)
(* lock.                                                                   *)
(***************************************************************************)
LockThreads == {"query1", "query2"}

LockValues == {<<"r1">>, <<"r2">>}

\* a with block that does not wait for the lock
LockFree_Always(lock) == TRUE

\* with self.lock: the block is entered when no thread holds the lock
LockFree(lock) == lock = ""

\* the branch get takes (line 578)
GetBranch(c, key) == IF key \in DOMAIN c.cache THEN "hit" ELSE "miss"

\* the branch put takes (lines 587-589)
PutBranch(c, key) ==
    IF key \in DOMAIN c.cache THEN "remove"
    ELSE IF Cardinality(DOMAIN c.cache) >= max_size THEN "popleft" ELSE "set"

\* the statements of the branch raise: remove of a key that is not in the
\* access order, popleft of an empty deque, del or read of a missing key
BodyRaises(c, me) ==
    \/ me.at \in {"hit", "remove"} /\ me.key \notin Range(c.access_order)
    \/ me.at = "hit" /\ me.key \notin DOMAIN c.cache
    \/ me.at = "popleft" /\ c.access_order = <<>>
    \/ me.at = "popleft" /\ c.access_order # <<>> /\ Head(c.access_order) \notin DOMAIN c.cache

\* the cache after the branch of the call me has run (lines 579-581, 588-595)
BodyOf(c, me) ==
    IF BodyRaises(c, me) \/ me.at = "miss" THEN c
    ELSE IF me.at = "hit"
    THEN [c EXCEPT !.access_order = Append(RemoveFirst(@, me.key), me.key),
                   !.recency = Append(Without(@, me.key), me.key)]
    ELSE LET c1 == IF me.at = "remove"
                   THEN [c EXCEPT !.access_order = RemoveFirst(@, me.key)]
                   ELSE IF me.at = "popleft"
                   THEN [c EXCEPT !.access_order = Tail(@),
                                  !.cache = DictDel(@, Head(c.access_order))]
                   ELSE c
         IN  [c1 EXCEPT !.cache = DictSet(@, me.key, me.value),
                        !.access_order = Append(@, me.key),
                        !.recency = Append(Without(@, me.key), me.key)]

\* a thread calls get or put, enters the with block and makes the test
LockedEnter ==
    \E t \in LockThreads, op \in {"get", "put"}, key \in ThreadKeys, value \in LockValues :
        /\ call.pc[t].op = "idle"
        /\ LockFree(call.lock)
        /\ op = "get" => value = <<"r1">>
        /\ call' = [call EXCEPT !.lock = t,
                       !.pc[t] = [CacheIdle EXCEPT !.op = op, !.key = key,
                           !.value = IF op = "get" THEN <<>> ELSE value,
                           !.at = IF op = "get" THEN GetBranch(SmartCache, key)
                                  ELSE PutBranch(SmartCache, key)]]
        /\ ret' = [op |-> "with self.lock", thread |-> t, key |-> key, raised |-> FALSE,
                   value |-> None]
        /\ UNCHANGED <<cacheVars, graphVars, brainVars, watchVars>>

\* the thread runs the branch, returns and releases the lock
LockedFinish ==
    \E t \in LockThreads :
        /\ call.pc[t].op # "idle"
        /\ SetSmartCache(BodyOf(SmartCache, call.pc[t]))
        /\ call' = [call EXCEPT !.pc[t] = CacheIdle, !.lock = ""]
        /\ ret' = [op |-> call.pc[t].op, thread |-> t, key |-> call.pc[t].key,
                   raised |-> BodyRaises(SmartCache, call.pc[t]),
                   value |-> IF call.pc[t].op = "put" THEN call.pc[t].value
                             ELSE IF call.pc[t].at = "hit" /\ ~BodyRaises(SmartCache, call.pc[t])
                             THEN Some(cache[call.pc[t].key]) ELSE None]
        /\ UNCHANGED <<graphVars, brainVars, watchVars>>

LockedInit ==
    /\ SmartCacheInit
    /\ WatcherInit
    /\ CodeGraphInit
    /\ BrainReady
    /\ call = [op |-> "threads", lock |-> "", pc |-> [t \in LockThreads |-> CacheIdle]]
    /\ ret = [op |-> "init"]

LockedNext == LockedEnter \/ LockedFinish

SpecCacheLocked == LockedInit /\ [][LockedNext]_vars

\* C38: whatever gets and puts the threads make, the cache never holds more
\* than max_size entries and the access order holds every cached key once
\* and no other key; no call fails; a put of a key stores its value, a get
\* of a cached key returns the value stored for it and a get of another
\* key returns None, and no call changes the value of a key it leaves in
\* the cache other than the key it puts
C38_CacheInvariants ==
    /\ [](/\ Cardinality(DOMAIN cache) <= max_size
          /\ Range(access_order) = DOMAIN cache
          /\ Len(access_order) = Cardinality(DOMAIN cache)
          /\ ret.op \in {"get", "put"} => ~ret.raised)
    /\ [][ /\ ret'.op = "put" =>
                (ret'.key \in DOMAIN cache' /\ cache'[ret'.key] = ret'.value)
           /\ ret'.op = "get" =>
                /\ cache' = cache
                /\ ret'.value = IF ret'.key \in DOMAIN cache
                                THEN Some(cache[ret'.key]) ELSE None
           /\ \A k \in (DOMAIN cache) \cap (DOMAIN cache') :
                cache'[k] # cache[k] => (ret'.op = "put" /\ ret'.key = k) ]_vars

\* a get of the second thread has returned the second value, in a full
\* cache that has evicted a key
C38_Witness ==
    /\ ret.op = "get"
    /\ ret.thread = "query2"
    /\ ret.value = Some(<<"r2">>)
    /\ Cardinality(DOMAIN cache) = max_size
    /\ Len(recency) > max_size

\* the entity that add_entity has just added was a node of the graph
\* already, with the same imports and exports
AddedAgain(r) ==
    /\ r.op = "add_entity"
    /\ r.id \in NodeIds(nodes)
    /\ NodeOf(nodes', r.id).imports = NodeOf(nodes, r.id).imports
    /\ NodeOf(nodes', r.id).exports = NodeOf(nodes, r.id).exports

\* C39: adding an entity that is in the graph already with the same id,
\* imports and exports leaves the forward edges, the reverse edges and the
\* import index as they are, and so the edge count get_stats reports
C39_AddEntityIdempotent ==
    [][ AddedAgain(ret') =>
          /\ edges' = edges
          /\ reverse_deps' = reverse_deps
          /\ import_map' = import_map
          /\ graph_edges(edges') = graph_edges(edges) ]_vars

(***************************************************************************)
(* The initialization model: the background thread of BrainV2.__init__     *)
(* runs _initialize one step at a time (lines 624-749) while operations    *)
(* are called.  call holds the step the thread is at, whether self.table,  *)
(* self.memory_table and self.model are set and whether the observer is    *)
(* running.  A step that calls a collaborator may raise; the try block of  *)
(* _initialize catches it, logs "BrainV2 initialization failed" and the    *)
(* thread ends.  The model loaders catch their own exceptions.             *)
(***************************************************************************)
InitSteps ==
    <<"dependencies", "connect", "table", "memory_table", "model", "clients",
      "ready", "_start_watchdog", "done">>

\* the steps whose exception reaches the except block of _initialize
RaisingSteps == {"connect", "table", "memory_table", "clients", "_start_watchdog"}

\* the steps at which the thread has ended
EndSteps == {"done", "failed", "lobotomized"}

\* the step after the step at in InitSteps
StepAfter(at) == InitSteps[(CHOOSE k \in 1..Len(InitSteps) : InitSteps[k] = at) + 1]

\* a try block that goes on after an exception
NextStep_GoOn(at, missing, raises) == StepAfter(at)

\* where the thread goes from the step at: missing tells that the
\* dependencies are missing, raises that the step raises
NextStep(at, missing, raises) ==
    IF at = "dependencies" /\ missing THEN "lobotomized"
    ELSE IF at \in RaisingSteps /\ raises THEN "failed"
    ELSE StepAfter(at)

\* BrainV2.__init__ (lines 600-622): nothing is set, the thread is started
InitializeInit ==
    /\ SmartCacheInit
    /\ WatcherInit
    /\ CodeGraphInit
    /\ ready = FALSE
    /\ fs = <<>>
    /\ table = <<>>
    /\ entity_cache = <<>>
    /\ memory_table = <<>>
    /\ query_history = <<>>
    /\ call = [op |-> "_initialize", at |-> "dependencies", table |-> FALSE,
               memory_table |-> FALSE, model |-> FALSE, observer |-> FALSE,
               failed_at |-> ""]
    /\ ret = [op |-> "init"]

\* the thread runs the step it is at
InitializeStep ==
    \E missing \in BOOLEAN, raises \in BOOLEAN, loaded \in BOOLEAN :
        /\ call.at \notin EndSteps
        /\ call.at # "dependencies" => ~missing
        /\ call.at \notin RaisingSteps => ~raises
        /\ call.at # "model" => loaded
        /\ LET ok == ~raises /\ ~(call.at = "dependencies" /\ missing)
           IN  /\ call' = [call EXCEPT
                      !.at = NextStep(call.at, missing, raises),
                      !.table = @ \/ (call.at = "table" /\ ok),
                      !.memory_table = @ \/ (call.at = "memory_table" /\ ok),
                      !.model = @ \/ (call.at = "model" /\ loaded),
                      !.observer = @ \/ (call.at = "_start_watchdog" /\ ok /\ ready),
                      !.failed_at = IF raises THEN call.at ELSE @]
               /\ ready' = (ready \/ (call.at = "ready" /\ ok))
        /\ ret' = [op |-> "_initialize", at |-> call.at, raised |-> raises]
        /\ UNCHANGED <<cacheVars, graphVars, fs, table, entity_cache, memory_table,
                       query_history, watchVars>>

InitializeNext ==
    \/ InitializeStep
    \/ WriteFile(MainFiles)
    \/ IndexFile(MainFiles)
    \/ Remember
    \/ GetStats

SpecInitialize == InitializeInit /\ [][InitializeNext]_vars

\* ready implies that the handles of both tables are set; ready is set by
\* _initialize only and never reset; the observer runs only when ready
ReadyIsSound ==
    /\ [](ready => (call.table /\ call.memory_table))
    /\ [][ready => ready']_vars
    /\ [][(~ready /\ ready') => (ret'.op = "_initialize" /\ ret'.at = "ready")]_vars
    /\ [](call.observer => ready)

\* C40: ready implies that the handles of the code table and of the memory
\* table are set; ready is set at most once and never reset; the watcher is
\* started only after ready is true; and when the dependencies are missing
\* or the initialization fails, ready is false and stays false
C40_ReadyImpliesInitialized ==
    /\ ReadyIsSound
    /\ [](call.at \in {"lobotomized", "failed"} => ~ready)

\* C40 as the code has it: as above, but a failure of the initialization
\* leaves ready false only when it happens before ready is set; when the
\* start of the watcher fails, ready stays true and no observer runs
C40_ReadyUnlessFailedBefore ==
    /\ ReadyIsSound
    /\ [](call.at = "lobotomized" => ~ready)
    /\ [](call.at = "failed" =>
            IF call.failed_at = "_start_watchdog" THEN ready /\ ~call.observer
            ELSE ~ready)

\* the start of the watcher has failed after ready was set, and an
\* operation has been served since
C40_Witness ==
    /\ call.at = "failed"
    /\ call.failed_at = "_start_watchdog"
    /\ ready
    /\ ~call.observer
    /\ ret.op = "get_stats"
    /\ ~ret.not_ready

====
